---------------------------- MODULE Spec2Model ----------------------------
(***************************************************************************)
(* A model of the C++ renderer of quicktype                                *)
(* (src/quicktype-core/language/CPlusPlus.ts, class CPlusPlusRenderer).    *)
(*                                                                         *)
(* The renderer turns a type graph and a set of options into an ordered    *)
(* set of files.  A type is a record [kind, name, sub]; a class refers to  *)
(* its properties through classProps, so that cyclic graphs are finite     *)
(* data.  A line of output is a sequence of strings (tokens); a file name  *)
(* is a sequence of strings as well, because the code builds file names    *)
(* by concatenation (name + ".hpp").                                       *)
(***************************************************************************)
EXTENDS Integers, Sequences, FiniteSets, TLC

(***************************************************************************)
(* Types of the graph                                                      *)
(***************************************************************************)
\* The constraint attributes of a type: <<>> when it has none, else one record
\* [minValue, maxValue, minLength, maxLength, pattern] in which an absent bound is <<>> and a present one <<value>>.
NoConstraints == <<>>

Prim(k) == [kind |-> k, name |-> "", sub |-> <<>>, attr |-> NoConstraints]
ClassT(n) == [kind |-> "class", name |-> n, sub |-> <<>>, attr |-> NoConstraints]
EnumT(n) == [kind |-> "enum", name |-> n, sub |-> <<>>, attr |-> NoConstraints]
ArrayT(t) == [kind |-> "array", name |-> "", sub |-> <<t>>, attr |-> NoConstraints]
MapT(t) == [kind |-> "map", name |-> "", sub |-> <<t>>, attr |-> NoConstraints]
UnionT(n, ms) == [kind |-> "union", name |-> n, sub |-> ms, attr |-> NoConstraints]
Constrained(t, a) == [t EXCEPT !.attr = a]

\* JavaScript's null and undefined, as values of the shape of a type.
JsNull == [kind |-> "<null>", name |-> "", sub |-> <<>>, attr |-> NoConstraints]
JsUndefined == [kind |-> "<undefined>", name |-> "", sub |-> <<>>, attr |-> NoConstraints]

NullT == Prim("null")
IntT == Prim("integer")
StrT == Prim("string")
OptT(t) == UnionT("", <<t, NullT>>)

\* optionalType
optionalType == "std::shared_ptr"

(***************************************************************************)
(* Sequence helpers                                                        *)
(***************************************************************************)
Range(s) == {s[i] : i \in DOMAIN s}

RECURSIVE Flatten(_)
Flatten(ss) == IF ss = <<>> THEN <<>> ELSE Head(ss) \o Flatten(Tail(ss))

\* A JavaScript Set keeps insertion order: s with x added at the end unless present.
SetAdd(s, x) == IF x \in Range(s) THEN s ELSE Append(s, x)

\* setUnion(a, b) of collection-utils: the elements of a, then those of b not in a.
RECURSIVE setUnion(_, _)
setUnion(a, b) == IF b = <<>> THEN a ELSE setUnion(SetAdd(a, Head(b)), Tail(b))


(***************************************************************************)
(* State                                                                   *)
(***************************************************************************)
VARIABLES
    classProps,        \* the type graph: class name -> ordered properties [name, jsonName, type]
    topLevels,         \* the type graph: ordered top-levels [name, type]
    declarations,      \* the declaration IR of the graph: ordered [kind, type]
    options,           \* _options
    proposedFilename,  \* the argument of emitSourceStructure
    generatedFiles,    \* _generatedFiles, in insertion order
    allTypeNames,      \* _allTypeNames, in insertion order
    currentFilename,   \* _currentFilename
    source,            \* the lines emitted into the file that is open
    finishedFiles,     \* the files finished in this render pass, in order: [name, lines]
    pc,                \* the position of the render pass
    todo,              \* the named types forEachNamedType has still to visit
    defining,          \* the type whose file emitDefinition is writing
    includes,          \* the IncludeMap of emitIncludes, in insertion order: [name, kind, typeKind]
    propTypes,         \* the occurrences updateIncludes has still to process
    seen,              \* the occurrences updateIncludes has processed for the current file
    passes,            \* the number of render passes started on this renderer
    prevOutput,        \* the files of the previous render pass
    failure,           \* the assertion or panic that ended the pass, "" when none
    probe              \* the input and the result of a function applied on its own

vars == <<classProps, topLevels, declarations, options, proposedFilename, generatedFiles, allTypeNames, currentFilename, source, finishedFiles, pc, todo, defining, includes, propTypes, seen, passes, prevOutput, failure, probe>>

graphVars == <<classProps, topLevels, declarations, options, proposedFilename>>

NoFile == <<"<undefined>">>
NoType == JsUndefined
NoProbe == [op |-> "none"]

(***************************************************************************)
(* TypeUtils and the parts of ConvenienceRenderer the renderer calls       *)
(***************************************************************************)
\* The rank of a kind in the order setSortBy(members, m => m.kind) gives.
KindRank(k) == CASE k = "array" -> 1 [] k = "bool" -> 2 [] k = "class" -> 3 [] k = "double" -> 4 [] k = "enum" -> 5 [] k = "integer" -> 6 [] k = "map" -> 7 [] k = "string" -> 8 [] OTHER -> 9

RECURSIVE SortByKind(_)
SortByKind(ms) == IF ms = <<>> THEN <<>> ELSE LET i == CHOOSE i \in DOMAIN ms : \A j \in DOMAIN ms : KindRank(ms[i].kind) <= KindRank(ms[j].kind) IN <<ms[i]>> \o SortByKind([j \in 1..(Len(ms) - 1) |-> IF j < i THEN ms[j] ELSE ms[j + 1]])

IsNonNull(m) == m.kind # "null"

findMember(u, k) == IF \E i \in DOMAIN u.sub : u.sub[i].kind = k THEN u.sub[CHOOSE i \in DOMAIN u.sub : u.sub[i].kind = k] ELSE JsUndefined

\* removeNullFromUnion(u, sortBy): [maybeNull, nonNulls]; maybeNull is null, never undefined, when u has no null member.
removeNullFromUnion(u, sortBy) == LET nn == SelectSeq(u.sub, IsNonNull) IN [maybeNull |-> IF findMember(u, "null") = JsUndefined THEN JsNull ELSE findMember(u, "null"), nonNulls |-> IF sortBy THEN SortByKind(nn) ELSE nn]

nullableFromUnion(u) == LET r == removeNullFromUnion(u, FALSE) IN IF r.maybeNull = JsNull THEN JsNull ELSE IF Len(r.nonNulls) # 1 THEN JsNull ELSE r.nonNulls[1]

unionNeedsName(u) == nullableFromUnion(u) = JsNull

nameForNamedType(t) == t.name

isNamedType(t) == t.kind \in {"class", "enum", "union"}

\* The types a declaration is made for: classes, enums and the unions that need a name.
NeedsDeclaration(t) == t.kind \in {"class", "enum"} \/ (t.kind = "union" /\ unionNeedsName(t))

isForwardDeclaredType(t) == \E i \in DOMAIN declarations : declarations[i].kind = "forward" /\ declarations[i].type = t

IsDefine(d) == d.kind = "define"

namedTypes == [i \in 1..Len(SelectSeq(declarations, IsDefine)) |-> SelectSeq(declarations, IsDefine)[i].type]

IsClass(t) == t.kind = "class"
IsEnum(t) == t.kind = "enum"
IsUnion(t) == t.kind = "union"

haveNamedTypes == Len(namedTypes) > 0
haveNamedUnions == Len(SelectSeq(namedTypes, IsUnion)) > 0

\* The types in t, t included, without entering the properties of a class.
RECURSIVE TypesIn(_)
TypesIn(t) == {t} \cup UNION {TypesIn(t.sub[i]) : i \in DOMAIN t.sub}

\* The types reachable from the set S of types through the properties props of the classes.
RECURSIVE ReachableFrom(_, _)
ReachableFrom(props, S) == LET more == S \cup UNION {UNION {TypesIn(props[c.name][i].type) : i \in DOMAIN props[c.name]} : c \in {t \in S : t.kind = "class"}} IN IF more = S THEN S ELSE ReachableFrom(props, more)

GraphTypes(props, tops) == ReachableFrom(props, UNION {TypesIn(tops[i].type) : i \in DOMAIN tops})

\* typeGraph.allTypesUnordered(): every type reachable from the top-levels.
allTypesUnordered == GraphTypes(classProps, topLevels)

haveUnions == \E t \in allTypesUnordered : t.kind = "union"

\* namedTypeToNameForTopLevel(t) === undefined: the top-level needs a typedef of its own.
TopLevelNeedsTypedef(t) == ~isNamedType(t)

(***************************************************************************)
(* Representation of types: cppType and its helpers                        *)
(***************************************************************************)
\* A TypeContext.
Ctx(fwd, opt, ns) == [needsForwardIndirection |-> fwd, needsOptionalIndirection |-> opt, inJsonNamespace |-> ns]

ourQualifier(inJsonNamespace) == IF inJsonNamespace THEN options.namespace \o <<"::">> ELSE <<>>

jsonQualifier(inJsonNamespace) == IF inJsonNamespace THEN <<>> ELSE <<"nlohmann::">>

variantIndirection(needIndirection, typeSrc) == IF ~needIndirection THEN typeSrc ELSE <<optionalType, "<">> \o typeSrc \o <<">">>

\* The context cppType gives the single non-null member of a nullable union.
NullableMemberCtx_Inherited(ctx) == ctx

NullableMemberCtx(ctx) == Ctx(FALSE, FALSE, ctx.inJsonNamespace)

\* The class arm of cppType.
cppClassType(t, ctx) == variantIndirection(ctx.needsForwardIndirection /\ isForwardDeclaredType(t), ourQualifier(ctx.inJsonNamespace) \o <<nameForNamedType(t)>>)

RECURSIVE cppType(_, _, _)
cppType(t, ctx, withIssues) ==
    CASE t.kind \in {"any", "null"} -> jsonQualifier(ctx.inJsonNamespace) \o <<"json">>
      [] t.kind = "bool" -> <<"bool">>
      [] t.kind = "integer" -> <<"int64_t">>
      [] t.kind = "double" -> <<"double">>
      [] t.kind = "string" -> <<"std::string">>
      [] t.kind = "array" -> <<"std::vector<">> \o cppType(t.sub[1], Ctx(FALSE, TRUE, ctx.inJsonNamespace), withIssues) \o <<">">>
      [] t.kind = "class" -> cppClassType(t, ctx)
      [] t.kind = "map" -> <<"std::map<std::string, ">> \o cppType(t.sub[1], Ctx(FALSE, TRUE, ctx.inJsonNamespace), withIssues) \o <<">">>
      [] t.kind = "enum" -> ourQualifier(ctx.inJsonNamespace) \o <<nameForNamedType(t)>>
      [] t.kind = "union" -> IF nullableFromUnion(t) = JsNull THEN ourQualifier(ctx.inJsonNamespace) \o <<nameForNamedType(t)>> ELSE <<optionalType, "<">> \o cppType(nullableFromUnion(t), NullableMemberCtx(ctx), withIssues) \o <<">">>

\* The comma-separated renderings of the members of a variant.
RECURSIVE VariantTypeList(_, _, _)
VariantTypeList(nonNulls, ctx, withIssues) == IF nonNulls = <<>> THEN <<>> ELSE (IF Len(nonNulls) > 1 THEN VariantTypeList(SubSeq(nonNulls, 1, Len(nonNulls) - 1), ctx, withIssues) \o <<", ">> ELSE <<>>) \o cppType(nonNulls[Len(nonNulls)], Ctx(TRUE, FALSE, ctx.inJsonNamespace), withIssues)

cppTypeInOptional(nonNulls, ctx, withIssues) == IF Len(nonNulls) = 1 THEN cppType(nonNulls[1], ctx, withIssues) ELSE <<"boost::variant<">> \o VariantTypeList(nonNulls, ctx, withIssues) \o <<">">>

variantType(u, inJsonNamespace) == LET r == removeNullFromUnion(u, TRUE) indirection == r.maybeNull # JsNull variant == cppTypeInOptional(r.nonNulls, Ctx(~indirection, ~indirection, inJsonNamespace), TRUE) IN IF ~indirection THEN variant ELSE <<optionalType, "<">> \o variant \o <<">">>

(***************************************************************************)
(* Reference classification: generatedTypes and updateIncludes             *)
(***************************************************************************)
\* A record that drops the forcing of the walk.
TypeRecord_Unforced(t, l, isVariant, forceInclude) == [name |-> nameForNamedType(t), type |-> t, level |-> l, variant |-> isVariant, forceInclude |-> FALSE]

\* A TypeRecord of generatedTypes.
TypeRecord(t, l, isVariant, forceInclude) == [name |-> nameForNamedType(t), type |-> t, level |-> l, variant |-> isVariant, forceInclude |-> forceInclude]

\* A condition that holds for the type of the member only, not below an array or a map.
IsNamedUnionMember_DirectOnly(isClassMember, l, t) == unionNeedsName(t) /\ isClassMember /\ l = 0

\* A condition that forgets to ask whether the union needs a name.
IsNamedUnionMember_AnyUnion(isClassMember, l, t) == isClassMember

\* The condition under which generatedTypes records a union itself and forces its subtypes.
IsNamedUnionMember(isClassMember, l, t) == unionNeedsName(t) /\ isClassMember

\* recur of generatedTypes; the result array is returned instead of being pushed to.
RECURSIVE recur(_, _, _, _, _)
recur(isClassMember, forceInclude, isVariant, l, t) ==
    CASE t.kind = "array" -> recur(isClassMember, forceInclude, isVariant, l + 1, t.sub[1])
      [] t.kind = "class" -> <<TypeRecord(t, l, isVariant, forceInclude)>>
      [] t.kind = "map" -> recur(isClassMember, forceInclude, isVariant, l + 1, t.sub[1])
      [] t.kind = "enum" -> <<TypeRecord(t, l, isVariant, FALSE)>>
      [] t.kind = "union" ->
            LET named == IsNamedUnionMember(isClassMember, l, t)
                force == IF named THEN TRUE ELSE forceInclude
                r == removeNullFromUnion(t, FALSE)
                hasNull == r.maybeNull # JsNull
            IN (IF named THEN <<TypeRecord(t, l, TRUE, force)>> ELSE <<>>) \o Flatten([i \in DOMAIN r.nonNulls |-> recur(isClassMember, force, hasNull, l + 1, r.nonNulls[i])])
      [] OTHER -> <<>>

generatedTypes(isClassMember, theType) == recur(isClassMember, FALSE, FALSE, 0, theType)

\* A classification that forgets the nesting level: only a forced occurrence is Include.
ClassIncludeKind_ForcedOnly(t) == IF t.forceInclude THEN "Include" ELSE "ForwardDeclare"

\* A classification by the nesting level alone.
ClassIncludeKind_LevelOnly(t) == IF t.level = 0 THEN "Include" ELSE "ForwardDeclare"

\* The kind updateIncludes gives an occurrence of a class.
ClassIncludeKind(t) == IF t.forceInclude THEN "Include" ELSE IF t.level = 0 THEN "Include" ELSE "ForwardDeclare"

\* The kind updateIncludes gives an occurrence of a union: maybeNull is never undefined.
UnionIncludeKind(t) == IF removeNullFromUnion(t.type, TRUE).maybeNull # JsUndefined THEN "Include" ELSE IF t.forceInclude THEN "Include" ELSE "ForwardDeclare"

\* A propRecord without the branch for enums: kind and typeKind stay undefined.
propRecord_NoEnumBranch(t) ==
    CASE t.type.kind = "class" -> [kind |-> ClassIncludeKind(t), typeKind |-> "class"]
      [] t.type.kind = "union" -> [kind |-> UnionIncludeKind(t), typeKind |-> "union"]
      [] OTHER -> [kind |-> "ForwardDeclare", typeKind |-> "undefined"]

\* propRecord of updateIncludes for one occurrence.
propRecord(t) ==
    CASE t.type.kind = "class" -> [kind |-> ClassIncludeKind(t), typeKind |-> "class"]
      [] t.type.kind = "enum" -> [kind |-> "ForwardDeclare", typeKind |-> "enum"]
      [] t.type.kind = "union" -> [kind |-> UnionIncludeKind(t), typeKind |-> "union"]
      [] OTHER -> [kind |-> "undefined", typeKind |-> "undefined"]

IncludesHas(incl, typeName) == \E i \in DOMAIN incl : incl[i].name = typeName

IncludesGet(incl, typeName) == incl[CHOOSE i \in DOMAIN incl : incl[i].name = typeName]

IncludesSet(incl, typeName, rec) == IF IncludesHas(incl, typeName) THEN [i \in DOMAIN incl |-> IF incl[i].name = typeName THEN [name |-> typeName, kind |-> rec.kind, typeKind |-> rec.typeKind] ELSE incl[i]] ELSE Append(incl, [name |-> typeName, kind |-> rec.kind, typeKind |-> rec.typeKind])

\* A merge in which the last occurrence decides: the record is always written over.
MergeInclude_LastWins(incl, t) == IncludesSet(incl, t.name, propRecord(t))

\* The body of the loop of updateIncludes for one occurrence t.
MergeInclude(incl, t) == IF IncludesHas(incl, t.name) THEN (IF IncludesGet(incl, t.name).kind = "ForwardDeclare" THEN IncludesSet(incl, t.name, propRecord(t)) ELSE incl) ELSE IncludesSet(incl, t.name, propRecord(t))

\* The occurrences emitIncludes hands to updateIncludes for the declaration c, in order.
OccurrencesOf(c) == IF c.kind = "union" THEN generatedTypes(FALSE, c) ELSE IF c.kind = "class" THEN Flatten([i \in DOMAIN classProps[c.name] |-> generatedTypes(TRUE, classProps[c.name][i].type)]) ELSE <<>>

(***************************************************************************)
(* Emission of lines.  Blank lines, indentation and descriptions (the      *)
(* graphs here carry none) are left out; leadingComments is undefined.     *)
(***************************************************************************)
HppFile(name) == <<name, ".hpp">>
HelperFile == HppFile("helper")
GeneratorsFile == HppFile("Generators")

emitInclude(global, name) == <<<<"#include ", IF global THEN "<" ELSE "\"">> \o name \o <<IF global THEN ">" ELSE "\"">>>>

emitBlock(line, withSemicolon, body) == <<line \o <<" {">>>> \o body \o <<IF withSemicolon THEN <<"};">> ELSE <<"}">>>>

RECURSIVE emitNamespaces(_, _)
emitNamespaces(namespaceNames, body) == IF namespaceNames = <<>> THEN body ELSE emitBlock(<<"namespace ", Head(namespaceNames)>>, FALSE, emitNamespaces(Tail(namespaceNames), body))

emitMember(cppTypeSrc, name) == <<cppTypeSrc \o <<" ">> \o name \o <<";">>>>

TopLevelNames == [i \in DOMAIN topLevels |-> topLevels[i].name]

\* The usage comment of startFile.
UsageComment(basename) == <<<<"//", " To parse this JSON data, first install">>, <<"//", "">>, <<"//", "     Boost     http://www.boost.org">>, <<"//", "     json.hpp  https://github.com/nlohmann/json">>, <<"//", "">>, <<"//", " Then include this file, and then do">>, <<"//", "">>>> \o (IF options.typeSourceStyle THEN [i \in DOMAIN topLevels |-> <<"//     ">> \o ourQualifier(FALSE) \o <<topLevels[i].name, " data = nlohmann::json::parse(jsonString);">>] ELSE <<<<"//     ">> \o ourQualifier(FALSE) \o basename \o <<" data = nlohmann::json::parse(jsonString);">>>>)

\* The lines startFile emits.
startFile(basename, includeHelper) ==
    (IF ~options.justTypes THEN UsageComment(basename) ELSE <<>>)
    \o <<<<"#pragma once">>>>
    \o (IF haveNamedUnions THEN emitInclude(TRUE, <<"boost/variant.hpp">>) ELSE <<>>)
    \o (IF ~options.justTypes
        THEN (IF ~options.includeLocation THEN emitInclude(TRUE, <<"nlohmann/json.hpp">>) ELSE emitInclude(FALSE, <<"json.hpp">>))
             \o (IF includeHelper /\ ~options.typeSourceStyle THEN emitInclude(FALSE, HelperFile) ELSE <<>>)
        ELSE <<>>)

\* The keyword of a class, by codeFormat.
ClassKeyword == IF options.codeFormat THEN "class " ELSE "struct "

(***************************************************************************)
(* emitIncludes: the lines a type file gets from its IncludeMap            *)
(***************************************************************************)
\* Passes that do not skip the entry of the type being defined.
NotDefined_NoSkip(incl, defName) == incl

\* The entries of the map the two passes of emitIncludes do not skip.
NotDefined(incl, defName) == SelectSeq(incl, LAMBDA rec : rec.name # defName)

IncludedEntries(incl, defName) == SelectSeq(NotDefined(incl, defName), LAMBDA rec : rec.kind # "ForwardDeclare")

ForwardEntries(incl, defName) == SelectSeq(NotDefined(incl, defName), LAMBDA rec : rec.kind = "ForwardDeclare")

\* The line of the forward-declaration pass for one entry; a panic is the line <<"panic">>.
\* A forward declaration that uses the class keyword for every kind of type.
ForwardLine_ClassKeyword(rec) == <<ClassKeyword, rec.name, ";">>

ForwardLine(rec) == IF rec.typeKind \in {"class", "union"} THEN <<ClassKeyword, rec.name, ";">> ELSE IF rec.typeKind = "enum" THEN <<"enum class ", rec.name, " : ", options.enumType, ";">> ELSE <<"panic">>

IncludeLines(incl, defName) == Flatten([i \in DOMAIN IncludedEntries(incl, defName) |-> emitInclude(FALSE, HppFile(IncludedEntries(incl, defName)[i].name))])

ForwardLines(incl, defName) == IF Len(ForwardEntries(incl, defName)) > 0 THEN emitNamespaces(options.namespace, [i \in DOMAIN ForwardEntries(incl, defName) |-> ForwardLine(ForwardEntries(incl, defName)[i])]) ELSE <<>>

\* What emitIncludes emits once the map is filled.
emitIncludes(incl, defName) == IF Len(incl) # 0 THEN IncludeLines(incl, defName) \o ForwardLines(incl, defName) ELSE <<>>

(***************************************************************************)
(* Declarations: emitClass, emitEnum, emitUnionTypedefs                    *)
(***************************************************************************)
\* lookupGlobalName: the global names keep their spelling under the type naming style.
lookupGlobalName(n) == n

\* constraintsForType(t) !== undefined
HasConstraints(t) == t.attr # NoConstraints

constraintMember(jsonName) == <<jsonName, "Constraint">>

BoundOrNone(b) == IF b = <<>> THEN "boost::none" ELSE ToString(b[1])

\* The constructor argument generateClassConstraints builds for one constrained property.
constrArg(a) == <<"(", BoundOrNone(a.minValue), ", ", BoundOrNone(a.maxValue), ", ", BoundOrNone(a.minLength), ", ", BoundOrNone(a.maxLength), ", ">> \o (IF a.pattern = <<>> THEN <<"boost::none">> ELSE <<"std::string(\"", a.pattern[1], "\")">>) \o <<")">>

\* generateClassConstraints: the constrained properties in order, <<>> standing for undefined.
generateClassConstraints(c) == LET ps == SelectSeq(classProps[c.name], LAMBDA p : HasConstraints(p.type)) IN [i \in DOMAIN ps |-> [jsonName |-> ps[i].jsonName, initializer |-> constraintMember(ps[i].jsonName) \o constrArg(ps[i].type.attr[1])]]

ConstraintsHas(constraints, jsonName) == \E i \in DOMAIN constraints : constraints[i].jsonName = jsonName

getterName(name) == <<"get_", name>>
mutableGetterName(name) == <<"getMutable_", name>>
setterName(name) == <<"set_", name>>

MemberCtx == Ctx(TRUE, TRUE, FALSE)

IsNullableProperty(t) == t.kind = "union" /\ findMember(t, "null") # JsUndefined

\* The private section of emitClassMembers for one property.
PrivateMember(p, constraints) == emitMember(cppType(p.type, MemberCtx, TRUE), <<p.name>>) \o (IF ConstraintsHas(constraints, p.jsonName) THEN emitMember(<<lookupGlobalName("ClassMemberConstraints")>>, constraintMember(p.jsonName)) ELSE <<>>)

\* A write accessor that assigns the field before it checks the value.
SetterLine_AssignFirst(p, constraints) ==
    LET rendered == cppType(p.type, MemberCtx, TRUE)
        checkConst == lookupGlobalName("CheckConstraint")
    IN IF IsNullableProperty(p.type)
       THEN IF ConstraintsHas(constraints, p.jsonName)
            THEN <<"void ">> \o setterName(p.name) \o <<"(">> \o rendered \o <<" value) { this->", p.name, " = value; if (value) ", checkConst, "(\"", p.name, "\", ">> \o constraintMember(p.jsonName) \o <<", *value); }">>
            ELSE <<"void ">> \o setterName(p.name) \o <<"(">> \o rendered \o <<" value) { this->", p.name, " = value; }">>
       ELSE IF ConstraintsHas(constraints, p.jsonName)
            THEN <<"void ">> \o setterName(p.name) \o <<"(const ">> \o rendered \o <<"& value) { this->", p.name, " = value; ", checkConst, "(\"", p.name, "\", ">> \o constraintMember(p.jsonName) \o <<", value); }">>
            ELSE <<"void ">> \o setterName(p.name) \o <<"(const ">> \o rendered \o <<"& value) { this->", p.name, " = value; }">>

\* The write accessor of emitClassMembers for one property.
SetterLine(p, constraints) ==
    LET rendered == cppType(p.type, MemberCtx, TRUE)
        checkConst == lookupGlobalName("CheckConstraint")
    IN IF IsNullableProperty(p.type)
       THEN IF ConstraintsHas(constraints, p.jsonName)
            THEN <<"void ">> \o setterName(p.name) \o <<"(">> \o rendered \o <<" value) { if (value) ", checkConst, "(\"", p.name, "\", ">> \o constraintMember(p.jsonName) \o <<", *value); this->", p.name, " = value; }">>
            ELSE <<"void ">> \o setterName(p.name) \o <<"(">> \o rendered \o <<" value) { this->", p.name, " = value; }">>
       ELSE IF ConstraintsHas(constraints, p.jsonName)
            THEN <<"void ">> \o setterName(p.name) \o <<"(const ">> \o rendered \o <<"& value) { ", checkConst, "(\"", p.name, "\", ">> \o constraintMember(p.jsonName) \o <<", value); this->", p.name, " = value; }">>
            ELSE <<"void ">> \o setterName(p.name) \o <<"(const ">> \o rendered \o <<"& value) { this->", p.name, " = value; }">>

\* A public section that gives every property the three accessors.
PublicMember_ThreeAccessors(p, constraints) ==
    LET rendered == cppType(p.type, MemberCtx, TRUE)
    IN IF ~options.codeFormat
       THEN emitMember(rendered, <<p.name>>)
       ELSE <<<<"const ">> \o rendered \o <<" & ">> \o getterName(p.name) \o <<"() const { return ", p.name, "; }">>, rendered \o <<" & ">> \o mutableGetterName(p.name) \o <<"() { return ", p.name, "; }">>, SetterLine(p, constraints)>>

\* The public section of emitClassMembers for one property.
PublicMember(p, constraints) ==
    LET rendered == cppType(p.type, MemberCtx, TRUE)
    IN IF ~options.codeFormat
       THEN emitMember(rendered, <<p.name>>)
       ELSE IF IsNullableProperty(p.type)
            THEN <<rendered \o <<" ">> \o getterName(p.name) \o <<"() const { return ", p.name, "; }">>, SetterLine(p, constraints)>>
            ELSE <<<<"const ">> \o rendered \o <<" & ">> \o getterName(p.name) \o <<"() const { return ", p.name, "; }">>, rendered \o <<" & ">> \o mutableGetterName(p.name) \o <<"() { return ", p.name, "; }">>, SetterLine(p, constraints)>>

emitClassMembers(c, constraints) ==
    (IF options.codeFormat THEN <<<<"private:">>>> \o Flatten([i \in DOMAIN classProps[c.name] |-> PrivateMember(classProps[c.name][i], constraints)]) \o <<<<"public:">>>> ELSE <<>>)
    \o Flatten([i \in DOMAIN classProps[c.name] |-> PublicMember(classProps[c.name][i], constraints)])

\* The constructor and destructor emitClass emits in a class with accessors.
ClassConstructor(className, constraints) ==
    <<<<"public:">>>>
    \o (IF constraints = <<>> THEN <<<<className, "() = default;">>>> ELSE <<<<className, "() :">>>> \o [i \in DOMAIN constraints |-> IF i = Len(constraints) THEN constraints[i].initializer ELSE constraints[i].initializer \o <<",">>] \o <<<<"{}">>>>)
    \o <<<<"virtual ~", className, "() = default;">>>>

emitClass(c, className) == LET constraints == generateClassConstraints(c) IN emitBlock(<<ClassKeyword, className>>, TRUE, (IF options.codeFormat THEN ClassConstructor(className, constraints) ELSE <<>>) \o emitClassMembers(c, constraints))

\* The enums by name: their cases [name, jsonName] in declared order.
EnumTable == [E |-> <<[name |-> "RED", jsonName |-> "red"], [name |-> "GREEN", jsonName |-> "green"]>>,
              Shade |-> <<[name |-> "GREEN", jsonName |-> "green"], [name |-> "DARK_GREEN", jsonName |-> "dark green"], [name |-> "RED", jsonName |-> "red"]>>,
              Only |-> <<[name |-> "BLUE", jsonName |-> "blue"]>>,
              Swapped |-> <<[name |-> "RED", jsonName |-> "green"], [name |-> "GREEN", jsonName |-> "red"]>>,
              Cased |-> <<[name |-> "LOWER", jsonName |-> "red"], [name |-> "UPPER", jsonName |-> "RED"], [name |-> "EMPTY", jsonName |-> ""]>>,
              Generators |-> <<[name |-> "DIESEL", jsonName |-> "diesel"], [name |-> "SOLAR", jsonName |-> "solar"]>>]

\* forEachEnumCase: the cases of an enum, [name, jsonName], in declared order.
enumCases(e) == EnumTable[e.name]

RECURSIVE CaseNames(_)
CaseNames(cases) == IF cases = <<>> THEN <<>> ELSE (IF Len(cases) > 1 THEN CaseNames(SubSeq(cases, 1, Len(cases) - 1)) \o <<", ">> ELSE <<>>) \o <<cases[Len(cases)].name>>

emitEnum(e, enumName) == <<<<"enum class ", enumName, " : ", options.enumType, " { ">> \o CaseNames(enumCases(e)) \o <<" };">>>>

emitUnionTypedefs(u, unionName) == <<<<"typedef ">> \o variantType(u, FALSE) \o <<" ", unionName, ";">>>>

\* The full definition of a named type: the dispatch of emitDefinition and of a 'define' declaration.
DefinitionLines(t, name) == IF t.kind = "class" THEN emitClass(t, name) ELSE IF t.kind = "enum" THEN emitEnum(t, name) ELSE IF t.kind = "union" THEN emitUnionTypedefs(t, name) ELSE <<>>

\* A dispatch that emits the full definition for a forward declaration too.
emitDeclaration_IgnoresKind(decl) == DefinitionLines(decl.type, nameForNamedType(decl.type))

\* emitDeclaration; the panic for a type that cannot be declared is the line <<"panic">>.
emitDeclaration(decl) == IF decl.kind = "forward" THEN <<<<ClassKeyword, nameForNamedType(decl.type), ";">>>> ELSE IF decl.type.kind \in {"class", "enum", "union"} THEN DefinitionLines(decl.type, nameForNamedType(decl.type)) ELSE <<<<"panic">>>>

emitTopLevelTypedef(t, name) == <<<<"typedef ">> \o cppType(t, MemberCtx, TRUE) \o <<" ", name, ";">>>>

\* forEachTopLevel with the predicate namedTypeToNameForTopLevel(t) === undefined.
TopLevelTypedefs == Flatten([i \in DOMAIN topLevels |-> IF TopLevelNeedsTypedef(topLevels[i].type) THEN emitTopLevelTypedef(topLevels[i].type, topLevels[i].name) ELSE <<>>])

(***************************************************************************)
(* Serialization procedures                                                *)
(***************************************************************************)
stringEscape(s) == s

GetOptionalCtx == Ctx(FALSE, FALSE, TRUE)

\* A decode that reads every property with at(), nullable or not.
FromJsonProperty_AlwaysRequired(p) == IF options.codeFormat THEN <<"_x.">> \o setterName(p.name) \o <<"( _j.at(\"", stringEscape(p.jsonName), "\").get<">> \o cppType(p.type, Ctx(TRUE, TRUE, TRUE), FALSE) \o <<">() );">> ELSE <<"_x.", p.name, " = _j.at(\"", stringEscape(p.jsonName), "\").get<">> \o cppType(p.type, Ctx(TRUE, TRUE, TRUE), FALSE) \o <<">();">>

\* A decode that reads a union without null with the untyped read.
FromJsonProperty_UnionUntyped(p) ==
    LET t == p.type
        r == removeNullFromUnion(t, TRUE)
    IN IF t.kind = "union" /\ r.maybeNull # JsNull
       THEN IF options.codeFormat
            THEN <<"_x.">> \o setterName(p.name) \o <<"( ">> \o ourQualifier(TRUE) \o <<"get_optional<">> \o cppTypeInOptional(r.nonNulls, GetOptionalCtx, FALSE) \o <<">(_j, \"", stringEscape(p.jsonName), "\") );">>
            ELSE <<"_x.", p.name, " = ">> \o ourQualifier(TRUE) \o <<"get_optional<">> \o cppTypeInOptional(r.nonNulls, GetOptionalCtx, FALSE) \o <<">(_j, \"", stringEscape(p.jsonName), "\");">>
       ELSE IF t.kind \in {"null", "any", "union"}
            THEN IF options.codeFormat
                 THEN <<"_x.">> \o setterName(p.name) \o <<"( ">> \o ourQualifier(TRUE) \o <<"get_untyped(_j, \"", stringEscape(p.jsonName), "\") );">>
                 ELSE <<"_x.", p.name, " = ">> \o ourQualifier(TRUE) \o <<"get_untyped(_j, \"", stringEscape(p.jsonName), "\");">>
            ELSE IF options.codeFormat
                 THEN <<"_x.">> \o setterName(p.name) \o <<"( _j.at(\"", stringEscape(p.jsonName), "\").get<">> \o cppType(t, Ctx(TRUE, TRUE, TRUE), FALSE) \o <<">() );">>
                 ELSE <<"_x.", p.name, " = _j.at(\"", stringEscape(p.jsonName), "\").get<">> \o cppType(t, Ctx(TRUE, TRUE, TRUE), FALSE) \o <<">();">>

\* The line of the emitted class decode for one property.
FromJsonProperty(p) ==
    LET t == p.type
        r == removeNullFromUnion(t, TRUE)
    IN IF t.kind = "union" /\ r.maybeNull # JsNull
       THEN IF options.codeFormat
            THEN <<"_x.">> \o setterName(p.name) \o <<"( ">> \o ourQualifier(TRUE) \o <<"get_optional<">> \o cppTypeInOptional(r.nonNulls, GetOptionalCtx, FALSE) \o <<">(_j, \"", stringEscape(p.jsonName), "\") );">>
            ELSE <<"_x.", p.name, " = ">> \o ourQualifier(TRUE) \o <<"get_optional<">> \o cppTypeInOptional(r.nonNulls, GetOptionalCtx, FALSE) \o <<">(_j, \"", stringEscape(p.jsonName), "\");">>
       ELSE IF t.kind \in {"null", "any"}
            THEN IF options.codeFormat
                 THEN <<"_x.">> \o setterName(p.name) \o <<"( ">> \o ourQualifier(TRUE) \o <<"get_untyped(_j, \"", stringEscape(p.jsonName), "\") );">>
                 ELSE <<"_x.", p.name, " = ">> \o ourQualifier(TRUE) \o <<"get_untyped(_j, \"", stringEscape(p.jsonName), "\");">>
            ELSE IF options.codeFormat
                 THEN <<"_x.">> \o setterName(p.name) \o <<"( _j.at(\"", stringEscape(p.jsonName), "\").get<">> \o cppType(t, Ctx(TRUE, TRUE, TRUE), FALSE) \o <<">() );">>
                 ELSE <<"_x.", p.name, " = _j.at(\"", stringEscape(p.jsonName), "\").get<">> \o cppType(t, Ctx(TRUE, TRUE, TRUE), FALSE) \o <<">();">>

\* The line of the emitted class encode for one property.
ToJsonProperty(p) == IF options.codeFormat THEN <<"_j[\"", stringEscape(p.jsonName), "\"] = _x.">> \o getterName(p.name) \o <<"();">> ELSE <<"_j[\"", stringEscape(p.jsonName), "\"] = _x.", p.name, ";">>

emitClassFunctions(c, className) ==
    emitBlock(<<"inline void from_json(const json& _j, ">> \o ourQualifier(TRUE) \o <<className, "& _x)">>, FALSE, [i \in DOMAIN classProps[c.name] |-> FromJsonProperty(classProps[c.name][i])])
    \o emitBlock(<<"inline void to_json(json& _j, const ">> \o ourQualifier(TRUE) \o <<className, "& _x)">>, FALSE, <<<<"_j = json::object();">>>> \o [i \in DOMAIN classProps[c.name] |-> ToJsonProperty(classProps[c.name][i])])

\* A comparison against the identifier of the case instead of its wire label.
EnumDecodeCase_ByIdentifier(c, onFirst, enumName) == <<IF onFirst THEN "" ELSE "else ", "if (_j == \"", stringEscape(c.name), "\") _x = ">> \o ourQualifier(TRUE) \o <<enumName, "::", c.name, ";">>

\* The line of the emitted enum decode for one case.
EnumDecodeCase(c, onFirst, enumName) == <<IF onFirst THEN "" ELSE "else ", "if (_j == \"", stringEscape(c.jsonName), "\") _x = ">> \o ourQualifier(TRUE) \o <<enumName, "::", c.name, ";">>

emitEnumFunctions(e, enumName) ==
    emitBlock(<<"inline void from_json(const json& _j, ">> \o ourQualifier(TRUE) \o <<enumName, "& _x)">>, FALSE,
        [i \in DOMAIN enumCases(e) |-> EnumDecodeCase(enumCases(e)[i], i = 1, enumName)]
        \o <<<<"else throw \"Input JSON does not conform to schema\";">>>>)
    \o emitBlock(<<"inline void to_json(json& _j, const ">> \o ourQualifier(TRUE) \o <<enumName, "& _x)">>, FALSE,
        emitBlock(<<"switch (_x)">>, FALSE,
            [i \in DOMAIN enumCases(e) |-> <<"case ">> \o ourQualifier(TRUE) \o <<enumName, "::", enumCases(e)[i].name, ": _j = \"", stringEscape(enumCases(e)[i].jsonName), "\"; break;">>]
            \o <<<<"default: throw \"This should not happen\";">>>>))

\* A table that tests for a number before it tests for an integer.
functionForKind_DoubleFirst == <<<<"bool", "is_boolean">>, <<"double", "is_number">>, <<"integer", "is_number_integer">>, <<"string", "is_string">>, <<"class", "is_object">>, <<"map", "is_object">>, <<"array", "is_array">>, <<"enum", "is_string">>>>

\* functionForKind of emitUnionFunctions: the kind tests in their fixed order.
functionForKind == <<<<"bool", "is_boolean">>, <<"integer", "is_number_integer">>, <<"double", "is_number">>, <<"string", "is_string">>, <<"class", "is_object">>, <<"map", "is_object">>, <<"array", "is_array">>, <<"enum", "is_string">>>>

\* The kind tests that have an alternative among nonNulls, in the order of functionForKind.
PresentKinds(nonNulls) == SelectSeq(functionForKind, LAMBDA kf : \E i \in DOMAIN nonNulls : nonNulls[i].kind = kf[1])

\* iterableFind(nonNulls, t => t.kind === kind)
TypeForKind(nonNulls, kind) == nonNulls[CHOOSE i \in DOMAIN nonNulls : nonNulls[i].kind = kind /\ \A j \in 1..(i - 1) : nonNulls[j].kind # kind]

\* The body of the emitted union decode: two lines per present kind, then the throw.
UnionDecodeBody(nonNulls) ==
    Flatten([i \in DOMAIN PresentKinds(nonNulls) |-> <<<<IF i = 1 THEN "if" ELSE "else if", " (_j.", PresentKinds(nonNulls)[i][2], "())">>, <<"_x = _j.get<">> \o cppType(TypeForKind(nonNulls, PresentKinds(nonNulls)[i][1]), Ctx(TRUE, TRUE, TRUE), FALSE) \o <<">();">>>>])
    \o <<<<"else throw \"Could not deserialize\";">>>>

\* An encode whose cases take the alternatives from the last to the first.
UnionEncodeBody_Reversed(nonNulls) ==
    emitBlock(<<"switch (_x.which())">>, FALSE,
        Flatten([i \in DOMAIN nonNulls |-> <<<<"case ", ToString(i - 1), ":">>, <<"_j = boost::get<">> \o cppType(nonNulls[Len(nonNulls) + 1 - i], Ctx(TRUE, TRUE, TRUE), FALSE) \o <<">(_x);">>, <<"break;">>>>])
        \o <<<<"default: throw \"Input JSON does not conform to schema\";">>>>)

\* The body of the emitted union encode: the cases in the order of nonNulls, then the default.
UnionEncodeBody(nonNulls) ==
    emitBlock(<<"switch (_x.which())">>, FALSE,
        Flatten([i \in DOMAIN nonNulls |-> <<<<"case ", ToString(i - 1), ":">>, <<"_j = boost::get<">> \o cppType(nonNulls[i], Ctx(TRUE, TRUE, TRUE), FALSE) \o <<">(_x);">>, <<"break;">>>>])
        \o <<<<"default: throw \"Input JSON does not conform to schema\";">>>>)

emitUnionFunctions(u) ==
    LET nonNulls == removeNullFromUnion(u, TRUE).nonNulls
        variant == cppTypeInOptional(nonNulls, Ctx(FALSE, FALSE, TRUE), FALSE)
    IN emitBlock(<<"inline void from_json(const json& _j, ">> \o variant \o <<"& _x)">>, FALSE, UnionDecodeBody(nonNulls))
       \o emitBlock(<<"inline void to_json(json& _j, const ">> \o variant \o <<"& _x)">>, FALSE, UnionEncodeBody(nonNulls))

\* The value forEachUniqueUnion keeps one union per.
UnionUniqueValue(u) == cppTypeInOptional(removeNullFromUnion(u, TRUE).nonNulls, Ctx(FALSE, FALSE, TRUE), FALSE)

namedUnions == SelectSeq(namedTypes, IsUnion)

\* forEachUniqueUnion: the first named union of each unique value.
UniqueUnions == SelectSeq([i \in DOMAIN namedUnions |-> IF \E j \in 1..(i - 1) : UnionUniqueValue(namedUnions[j]) = UnionUniqueValue(namedUnions[i]) THEN JsUndefined ELSE namedUnions[i]], IsUnion)

emitAllUnionFunctions == Flatten([i \in DOMAIN UniqueUnions |-> emitUnionFunctions(UniqueUnions[i])])

emitOptionalHelpers ==
    <<<<"template <typename T>">>>>
    \o emitBlock(<<"struct adl_serializer<", optionalType, "<T>>">>, TRUE,
        emitBlock(<<"static void to_json(json& j, const ", optionalType, "<T>& opt)">>, FALSE, <<<<"if (!opt) j = nullptr; else j = *opt;">>>>)
        \o emitBlock(<<"static ", optionalType, "<T> from_json(const json& j)">>, FALSE, <<<<"if (j.is_null()) return std::unique_ptr<T>(); else return std::unique_ptr<T>(new T(j.get<T>()));">>>>))

(***************************************************************************)
(* The validation runtime and the helper functions                         *)
(***************************************************************************)
lookupMemberName(n) == n

constraintMembers == <<[name |-> "MinValue", getter |-> "GetMinValue", setter |-> "SetMinValue", cppType |-> "int", cppConstType |-> "int"], [name |-> "MaxValue", getter |-> "GetMaxValue", setter |-> "SetMaxValue", cppType |-> "int", cppConstType |-> "int"], [name |-> "MinLength", getter |-> "GetMinLength", setter |-> "SetMinLength", cppType |-> "int", cppConstType |-> "int"], [name |-> "MaxLength", getter |-> "GetMaxLength", setter |-> "SetMaxLength", cppType |-> "int", cppConstType |-> "int"], [name |-> "Pattern", getter |-> "GetPattern", setter |-> "SetPattern", cppType |-> "std::string", cppConstType |-> "const std::string &"]>>

emitGetterSetter(t, getter, setter, memberName) == <<<<"void ", setter, "(", t, " ", memberName, ") { this->", memberName, " = ", memberName, "; }">>, <<"auto ", getter, "() const { return ", memberName, "; }">>>>

RECURSIVE ConstructorArgs(_)
ConstructorArgs(ms) == IF ms = <<>> THEN <<>> ELSE (IF Len(ms) > 1 THEN ConstructorArgs(SubSeq(ms, 1, Len(ms) - 1)) \o <<", ">> ELSE <<>>) \o <<lookupMemberName(ms[Len(ms)].name), "(", lookupMemberName(ms[Len(ms)].name), ")">>

\* The constraint-bundle class.
ConstraintBundleClass ==
    emitBlock(<<"class ", lookupGlobalName("ClassMemberConstraints")>>, TRUE,
        <<<<"private:">>>>
        \o Flatten([i \in DOMAIN constraintMembers |-> emitMember(<<"boost::optional<", constraintMembers[i].cppType, ">">>, <<lookupMemberName(constraintMembers[i].name)>>)])
        \o <<<<"public:">>, <<lookupGlobalName("ClassMemberConstraints"), "(">>>>
        \o [i \in DOMAIN constraintMembers |-> <<"boost::optional<", constraintMembers[i].cppType, "> ", lookupMemberName(constraintMembers[i].name)>> \o (IF i < Len(constraintMembers) THEN <<",">> ELSE <<>>)]
        \o <<<<") : ">> \o ConstructorArgs(constraintMembers) \o <<" {}">>, <<lookupGlobalName("ClassMemberConstraints"), "() = default;">>, <<"virtual ~", lookupGlobalName("ClassMemberConstraints"), "() = default;">>>>
        \o Flatten([i \in DOMAIN constraintMembers |-> emitGetterSetter(constraintMembers[i].cppConstType, lookupMemberName(constraintMembers[i].getter), lookupMemberName(constraintMembers[i].setter), lookupMemberName(constraintMembers[i].name))]))

exceptions == <<"ValueTooLowException", "ValueTooHighException", "ValueTooShortException", "ValueTooLongException", "InvalidPatternException">>

\* The exception classes of the validation runtime.
ExceptionClasses ==
    emitBlock(<<"class ", lookupGlobalName("ClassMemberConstraintException"), " : public std::runtime_error">>, TRUE, <<<<"public:">>, <<lookupGlobalName("ClassMemberConstraintException"), "(const std::string& msg) : std::runtime_error(msg) {}">>>>)
    \o Flatten([i \in DOMAIN exceptions |-> emitBlock(<<"class ", lookupGlobalName(exceptions[i]), " : public ", lookupGlobalName("ClassMemberConstraintException")>>, TRUE, <<<<"public:">>, <<lookupGlobalName(exceptions[i]), "(const std::string& msg) : ", lookupGlobalName("ClassMemberConstraintException"), "(msg) {}">>>>)])

\* One guarded throw of a check function: the test on a present bound and the exception it raises.
BoundCheck(getter, test, exception, message) == emitBlock(<<"if (c.", lookupMemberName(getter), test, lookupMemberName(getter), "())">>, FALSE, <<<<"throw ", lookupGlobalName(exception), message, lookupMemberName(getter), "())+\")\");">>>>)

PatternCheck == emitBlock(<<"if (c.", lookupMemberName("GetPattern"), "() != boost::none)">>, FALSE, <<<<"std::smatch result;">>, <<"std::regex_search(value, result, std::regex( *c.", lookupMemberName("GetPattern"), "() ));">>>> \o emitBlock(<<"if (result.empty())">>, FALSE, <<<<"throw ", lookupGlobalName("InvalidPatternException"), " (\"Value doesn't match pattern for \"+name+\" (\" + value+ \"!=\"+*c.", lookupMemberName("GetPattern"), "()+\")\");">>>>))

\* The check function for integer values.
MinValueCheck == BoundCheck("GetMinValue", "() != boost::none && value < *c.", "ValueTooLowException", " (\"Value too low for \"+ name + \" (\" + std::to_string(value)+ \"<\"+std::to_string(*c.")

MaxValueCheck == BoundCheck("GetMaxValue", "() != boost::none && value > *c.", "ValueTooHighException", " (\"Value too high for \"+name+\" (\" + std::to_string(value)+ \">\"+std::to_string(*c.")

MinLengthCheck == BoundCheck("GetMinLength", "() != boost::none && value.length() < *c.", "ValueTooShortException", " (\"Value too short for \"+name+\" (\" + std::to_string(value.length())+ \"<\"+std::to_string(*c.")

MaxLengthCheck == BoundCheck("GetMaxLength", "() != boost::none && value.length() > *c.", "ValueTooLongException", " (\"Value too long for \"+name+\" (\" + std::to_string(value.length())+ \">\"+std::to_string(*c.")

CheckFunctionHead(valueType) == <<"void ", lookupGlobalName("CheckConstraint"), "(const std::string & name, const ", lookupGlobalName("ClassMemberConstraints"), valueType>>

\* A check function that tests the maximum before the minimum.
IntegerCheckFunction_MaxFirst == emitBlock(CheckFunctionHead(" & c, int64_t value)"), FALSE, MaxValueCheck \o MinValueCheck)

IntegerCheckFunction == emitBlock(CheckFunctionHead(" & c, int64_t value)"), FALSE, MinValueCheck \o MaxValueCheck)

\* The check function for string values.
StringCheckFunction == emitBlock(CheckFunctionHead(" & c, const std::string & value)"), FALSE, MinLengthCheck \o MaxLengthCheck \o PatternCheck)

emitConstraintClasses == ConstraintBundleClass \o ExceptionClasses \o IntegerCheckFunction \o StringCheckFunction

GetUntypedFunction == emitBlock(<<"inline json get_untyped(const json &j, const char *property)">>, FALSE, emitBlock(<<"if (j.find(property) != j.end())">>, FALSE, <<<<"return j.at(property).get<json>();">>>>) \o <<<<"return json();">>>>)

GetOptionalFunction == <<<<"template <typename T>">>>> \o emitBlock(<<"inline ", optionalType, "<T> get_optional(const json &j, const char *property)">>, FALSE, emitBlock(<<"if (j.find(property) != j.end())">>, FALSE, <<<<"return j.at(property).get<", optionalType, "<T>>();">>>>) \o <<<<"return ", optionalType, "<T>();">>>>)

emitHelperFunctions ==
    (IF options.codeFormat /\ \E t \in allTypesUnordered : HasConstraints(t) THEN emitConstraintClasses ELSE <<>>)
    \o GetUntypedFunction
    \o (IF haveUnions THEN GetOptionalFunction ELSE <<>>)

emitExtraIncludes == IF options.codeFormat THEN emitInclude(TRUE, <<"boost/optional.hpp">>) \o emitInclude(TRUE, <<"stdexcept">>) \o emitInclude(TRUE, <<"regex">>) ELSE <<>>

\* The lines of helper.hpp: emitHelper between its startFile and its finishFile.
emitHelper ==
    startFile(HelperFile, FALSE)
    \o emitExtraIncludes
    \o emitInclude(TRUE, <<"sstream">>)
    \o emitNamespaces(options.namespace, <<<<"using nlohmann::json;">>>> \o emitHelperFunctions)
    \o (IF haveUnions THEN emitNamespaces(<<"nlohmann">>, emitOptionalHelpers) ELSE <<>>)

(***************************************************************************)
(* emitTypes and emitGenerators                                            *)
(***************************************************************************)
emitTypes ==
    (IF ~options.justTypes THEN <<<<"using nlohmann::json;">>>> \o emitHelperFunctions ELSE <<>>)
    \o Flatten([i \in DOMAIN declarations |-> emitDeclaration(declarations[i])])
    \o (IF options.justTypes THEN <<>> ELSE TopLevelTypedefs)

namedObjects == SelectSeq(namedTypes, IsClass)
namedEnums == SelectSeq(namedTypes, IsEnum)

\* Serialization procedures with those of the enums before those of the classes.
GeneratorFunctions_EnumsFirst ==
    Flatten([i \in DOMAIN namedEnums |-> emitEnumFunctions(namedEnums[i], nameForNamedType(namedEnums[i]))])
    \o Flatten([i \in DOMAIN namedObjects |-> emitClassFunctions(namedObjects[i], nameForNamedType(namedObjects[i]))])
    \o (IF haveUnions THEN emitAllUnionFunctions ELSE <<>>)

\* The serialization procedures emitGenerators puts in namespace nlohmann.
GeneratorFunctions ==
    Flatten([i \in DOMAIN namedObjects |-> emitClassFunctions(namedObjects[i], nameForNamedType(namedObjects[i]))])
    \o Flatten([i \in DOMAIN namedEnums |-> emitEnumFunctions(namedEnums[i], nameForNamedType(namedEnums[i]))])
    \o (IF haveUnions THEN emitAllUnionFunctions ELSE <<>>)

emitGenerators ==
    (IF TopLevelTypedefs # <<>> THEN emitNamespaces(options.namespace, TopLevelTypedefs) ELSE <<>>)
    \o (IF ~options.justTypes /\ haveNamedTypes THEN emitNamespaces(<<"nlohmann">>, GeneratorFunctions) ELSE <<>>)

\* The lines of the one file of the single-file layout, between startFile and finishFile.
SingleSourceLines ==
    startFile(proposedFilename, TRUE)
    \o emitExtraIncludes
    \o (IF options.justTypes
        THEN emitTypes
        ELSE (IF ~options.justTypes /\ haveNamedTypes /\ haveUnions THEN emitNamespaces(<<"nlohmann">>, IF haveUnions THEN emitOptionalHelpers ELSE <<>>) ELSE <<>>)
             \o emitNamespaces(options.namespace, emitTypes))
    \o emitGenerators

(***************************************************************************)
(* The type graphs and options the renderer is given                       *)
(***************************************************************************)
MaxProps == 2
MaxPasses == 2

ClsA == ClassT("A")
ClsB == ClassT("B")
EnumE == EnumT("E")
UB == UnionT("UB", <<ClsB, IntT>>)
UA == UnionT("UA", <<ClsA, StrT>>)

\* The types of the properties of class A, and of the one property of class B.
PoolA == {ClsB, OptT(ClsB), MapT(ArrayT(ClsB)), UB, ArrayT(UB), EnumE}
\* An integer with the bounds 1 and 9.
BoundedInt == Constrained(IntT, <<[minValue |-> <<1>>, maxValue |-> <<9>>, minLength |-> <<>>, maxLength |-> <<>>, pattern |-> <<>>]>>)

PoolB == {IntT, BoundedInt, ClsA, OptT(ClsA), OptT(ClsB), UA}

PropIdent == <<"x1", "x2", "x3", "x4">>
PropJson == <<"x-1", "x-2", "x-3", "x-4">>

PropsOf(ts) == [i \in DOMAIN ts |-> [name |-> PropIdent[i], jsonName |-> PropJson[i], type |-> ts[i]]]

\* The sequences of at most n distinct types of P.
TypeSeqs(P, n) == UNION {{s \in [1..k -> P] : \A i, j \in 1..k : i # j => s[i] # s[j]} : k \in 1..n}

NamedTopLevels == {<<[name |-> "A", type |-> ClsA]>>, <<[name |-> "Items", type |-> ArrayT(ClsA)]>>}
UnnamedTopLevels == {<<[name |-> "TopLevel", type |-> ArrayT(IntT)]>>, <<[name |-> "TopLevel", type |-> ArrayT(OptT(IntT))]>>}

\* The graphs: class A with its properties, class B where A reaches it, or no named type at all.
Graphs ==
    {[props |-> [A |-> PropsOf(sa), B |-> PropsOf(sb)], tops |-> tops] : sa \in TypeSeqs(PoolA, MaxProps), sb \in TypeSeqs(PoolB, 1), tops \in NamedTopLevels}
    \cup {[props |-> [A |-> <<>>, B |-> <<>>], tops |-> tops] : tops \in UnnamedTopLevels}

\* A graph in which B is not reachable is kept once, with the first shape of B.
WellFormedGraph(g) == ClsB \in GraphTypes(g.props, g.tops) \/ g.props.B = <<>> \/ g.props.B = PropsOf(<<IntT>>)

\* The declaration IR of a graph: a forward declaration of the class that closes a cycle,
\* then one 'define' per named type, the types a declaration uses first.
DeclarationOrder == <<EnumE, UA, ClsB, UB, ClsA>>

ClosesCycle(g, c) == c \in ReachableFrom(g.props, UNION {TypesIn(g.props[c.name][i].type) : i \in DOMAIN g.props[c.name]})

DeclarationsFor(g) ==
    LET named == {t \in GraphTypes(g.props, g.tops) : NeedsDeclaration(t)}
        defines == SelectSeq(DeclarationOrder, LAMBDA t : t \in named)
    IN (IF ClsB \in named /\ ClosesCycle(g, ClsB) THEN <<[kind |-> "forward", type |-> ClsB]>> ELSE <<>>) \o [i \in DOMAIN defines |-> [kind |-> "define", type |-> defines[i]]]

Options == [justTypes : BOOLEAN, typeSourceStyle : BOOLEAN, codeFormat : BOOLEAN, includeLocation : {TRUE}, namespace : {<<"quicktype">>}, enumType : {"int"}]

ProposedFilenames == {<<"TopLevel", ".hpp">>}

\* The proposed file names of a graph: TopLevel.hpp, and for the graphs whose class A has
\* one property also the name of the file of A.
ProposedFilenamesFor(g) == ProposedFilenames \cup (IF Len(g.props.A) = 1 THEN {<<"A", ".hpp">>} ELSE {})

Init ==
    /\ \E g \in Graphs :
        /\ WellFormedGraph(g)
        /\ classProps = g.props
        /\ topLevels = g.tops
        /\ declarations = DeclarationsFor(g)
        /\ proposedFilename \in ProposedFilenamesFor(g)
    /\ options \in Options
    /\ generatedFiles = <<>>
    /\ allTypeNames = <<>>
    /\ currentFilename = NoFile
    /\ source = <<>>
    /\ finishedFiles = <<>>
    /\ pc = "idle"
    /\ todo = <<>>
    /\ defining = NoType
    /\ includes = <<>>
    /\ propTypes = <<>>
    /\ seen = <<>>
    /\ passes = 0
    /\ prevOutput = <<>>
    /\ failure = ""
    /\ probe = NoProbe

(***************************************************************************)
(* The render pass                                                         *)
(***************************************************************************)
\* The names emitSourceStructure gathers: one per declaration, merged with setUnion.
RECURSIVE GatherTypeNames(_, _)
GatherTypeNames(decls, acc) == IF decls = <<>> THEN acc ELSE GatherTypeNames(Tail(decls), setUnion(<<cppType(Head(decls).type, Ctx(FALSE, FALSE, FALSE), TRUE)>>, acc))

\* The sets emitSourceStructure starts from: it clears both.
ClearedFiles(files) == <<>>
ClearedNames(names) == <<>>

\* startFile's assertion and the file it opens; finishFile closes it.
FileIsOpen == currentFilename # NoFile

Finished(name, lines) == [name |-> name, lines |-> lines]

HasPanic(lines) == \E i \in DOMAIN lines : lines[i] = <<"panic">>

\* emitSourceStructure up to the choice of the layout.
EmitSourceStructure ==
    /\ pc \in {"idle", "done"}
    /\ passes < MaxPasses
    /\ passes' = passes + 1
    /\ prevOutput' = finishedFiles
    /\ finishedFiles' = <<>>
    /\ generatedFiles' = ClearedFiles(generatedFiles)
    /\ allTypeNames' = GatherTypeNames(declarations, ClearedNames(allTypeNames))
    /\ pc' = IF options.typeSourceStyle THEN "single" ELSE "multi"
    /\ UNCHANGED <<graphVars, currentFilename, source, todo, defining, includes, propTypes, seen, failure, probe>>

\* emitSingleSourceStructure
EmitSingleSourceStructure ==
    /\ pc = "single"
    /\ IF FileIsOpen
       THEN /\ failure' = "Previous file wasn't finished"
            /\ pc' = "failed"
            /\ UNCHANGED <<generatedFiles, finishedFiles>>
       ELSE /\ generatedFiles' = SetAdd(generatedFiles, proposedFilename)
            /\ finishedFiles' = Append(finishedFiles, Finished(proposedFilename, SingleSourceLines))
            /\ failure' = IF HasPanic(SingleSourceLines) THEN "panic" ELSE failure
            /\ pc' = IF HasPanic(SingleSourceLines) THEN "failed" ELSE "done"
    /\ UNCHANGED <<graphVars, allTypeNames, currentFilename, source, todo, defining, includes, propTypes, seen, passes, prevOutput, probe>>

\* The lines of Generators.hpp between its startFile and its finishFile.
GeneratorsLines == startFile(GeneratorsFile, TRUE) \o Flatten([i \in DOMAIN allTypeNames |-> emitInclude(FALSE, allTypeNames[i] \o <<".hpp">>)]) \o emitGenerators

\* A first block that ignores justTypes.
HelperAndGenerators_Always == IF haveNamedTypes THEN <<Finished(HelperFile, emitHelper), Finished(GeneratorsFile, GeneratorsLines)>> ELSE <<>>

\* The files the first block of emitMultiSourceStructure emits.
HelperAndGenerators == IF ~options.justTypes /\ haveNamedTypes THEN <<Finished(HelperFile, emitHelper), Finished(GeneratorsFile, GeneratorsLines)>> ELSE <<>>

\* emitMultiSourceStructure up to forEachNamedType.
EmitHelperAndGenerators ==
    /\ pc = "multi"
    /\ IF FileIsOpen
       THEN /\ failure' = "Previous file wasn't finished"
            /\ pc' = "failed"
            /\ UNCHANGED <<finishedFiles, todo>>
       ELSE /\ finishedFiles' = finishedFiles \o HelperAndGenerators
            /\ todo' = namedTypes
            /\ pc' = "types"
            /\ UNCHANGED failure
    /\ UNCHANGED <<graphVars, generatedFiles, allTypeNames, currentFilename, source, defining, includes, propTypes, seen, passes, prevOutput, probe>>

\* emitDefinition up to the loop of emitIncludes: startFile, the file is recorded, the map is new.
EmitDefinitionStart ==
    /\ pc = "types"
    /\ todo # <<>>
    /\ IF FileIsOpen
       THEN /\ failure' = "Previous file wasn't finished"
            /\ pc' = "failed"
            /\ UNCHANGED <<currentFilename, source, generatedFiles, defining, includes, propTypes, seen, todo>>
       ELSE /\ currentFilename' = HppFile(nameForNamedType(Head(todo)))
            /\ source' = startFile(HppFile(nameForNamedType(Head(todo))), TRUE)
            /\ generatedFiles' = SetAdd(generatedFiles, HppFile(nameForNamedType(Head(todo))))
            /\ defining' = Head(todo)
            /\ todo' = Tail(todo)
            /\ includes' = <<>>
            /\ propTypes' = OccurrencesOf(Head(todo))
            /\ seen' = <<>>
            /\ pc' = "includes"
            /\ UNCHANGED failure
    /\ UNCHANGED <<graphVars, allTypeNames, finishedFiles, passes, prevOutput, probe>>

\* One turn of the loop of updateIncludes.
UpdateIncludesStep ==
    /\ pc = "includes"
    /\ propTypes # <<>>
    /\ includes' = MergeInclude(includes, Head(propTypes))
    /\ seen' = Append(seen, Head(propTypes))
    /\ propTypes' = Tail(propTypes)
    /\ UNCHANGED <<graphVars, generatedFiles, allTypeNames, currentFilename, source, finishedFiles, pc, todo, defining, passes, prevOutput, failure, probe>>

\* The lines of a type file after startFile.
DefinitionFileLines(incl, d) == emitIncludes(incl, nameForNamedType(d)) \o emitNamespaces(options.namespace, <<<<"using nlohmann::json;">>>> \o DefinitionLines(d, nameForNamedType(d)))

\* emitDefinition from the end of the loop of emitIncludes to finishFile.
EmitDefinitionFinish ==
    /\ pc = "includes"
    /\ propTypes = <<>>
    /\ finishedFiles' = Append(finishedFiles, Finished(currentFilename, source \o DefinitionFileLines(includes, defining)))
    /\ currentFilename' = NoFile
    /\ source' = <<>>
    /\ defining' = NoType
    /\ includes' = <<>>
    /\ seen' = <<>>
    /\ failure' = IF HasPanic(DefinitionFileLines(includes, defining)) THEN "panic" ELSE failure
    /\ pc' = IF HasPanic(DefinitionFileLines(includes, defining)) THEN "failed" ELSE "types"
    /\ UNCHANGED <<graphVars, generatedFiles, allTypeNames, todo, propTypes, passes, prevOutput, probe>>

\* The lines of the file named proposedFilename in the multi-file layout.
TopLevelFileLines == startFile(proposedFilename, TRUE) \o Flatten([i \in DOMAIN generatedFiles |-> emitInclude(FALSE, generatedFiles[i])]) \o emitNamespaces(options.namespace, TopLevelTypedefs)

\* A last block that emits the helper file whether or not the graph has named types.
TopLevelFiles_HelperAlways == IF proposedFilename \notin Range(generatedFiles) THEN <<Finished(HelperFile, emitHelper), Finished(proposedFilename, TopLevelFileLines)>> ELSE <<>>

\* The files the last block of emitMultiSourceStructure emits.
TopLevelFiles == IF proposedFilename \notin Range(generatedFiles) THEN (IF ~haveNamedTypes THEN <<Finished(HelperFile, emitHelper)>> ELSE <<>>) \o <<Finished(proposedFilename, TopLevelFileLines)>> ELSE <<>>

\* emitMultiSourceStructure after forEachNamedType.
EmitTopLevelFile ==
    /\ pc = "types"
    /\ todo = <<>>
    /\ IF FileIsOpen
       THEN /\ failure' = "Previous file wasn't finished"
            /\ pc' = "failed"
            /\ UNCHANGED finishedFiles
       ELSE /\ finishedFiles' = finishedFiles \o TopLevelFiles
            /\ pc' = "done"
            /\ UNCHANGED failure
    /\ UNCHANGED <<graphVars, generatedFiles, allTypeNames, currentFilename, source, todo, defining, includes, propTypes, seen, passes, prevOutput, probe>>

Next ==
    \/ EmitSourceStructure
    \/ EmitSingleSourceStructure
    \/ EmitHelperAndGenerators
    \/ EmitDefinitionStart
    \/ UpdateIncludesStep
    \/ EmitDefinitionFinish
    \/ EmitTopLevelFile

Spec == Init /\ [][Next]_vars

(***************************************************************************)
(* Properties of the reference classification                              *)
(***************************************************************************)
InLoop == pc = "includes"

KindOf(incl, n) == IF IncludesHas(incl, n) THEN IncludesGet(incl, n).kind ELSE "absent"

NamesSeen == {seen[i].name : i \in DOMAIN seen}

\* One step never turns an Include record of the map being filled into anything else.
MonotonicStep == (InLoop /\ pc' = "includes") => \A i \in DOMAIN includes : includes[i].kind = "Include" => KindOf(includes', includes[i].name) = "Include"

\* The record of a name is Include iff one of the occurrences processed so far was classified Include.
MergedKinds == InLoop => \A n \in NamesSeen : (KindOf(includes, n) = "Include") <=> (\E i \in DOMAIN seen : seen[i].name = n /\ propRecord(seen[i]).kind = "Include")

\* C1: while updateIncludes fills the map of one declaration, a record that is Include
\* stays Include whatever occurrence of the name comes later, and the kind of a name is
\* Include iff at least one of its occurrences was classified Include.
C1_MonotonicMerge == [][MonotonicStep]_vars /\ []MergedKinds

\* C1 witness: an occurrence classified ForwardDeclare came after one classified Include
\* of the same name, and the record is Include.
C1_Witness == InLoop /\ \E i, j \in DOMAIN seen : i < j /\ seen[i].name = seen[j].name /\ propRecord(seen[i]).kind = "Include" /\ propRecord(seen[j]).kind = "ForwardDeclare" /\ KindOf(includes, seen[i].name) = "Include"

\* The map of the declaration being emitted is complete.
MapComplete == InLoop /\ propTypes = <<>>

\* The classes that are the type of a property of class c itself, at nesting level 0.
LevelZeroClasses(c) == {classProps[c.name][i].type : i \in {j \in DOMAIN classProps[c.name] : classProps[c.name][j].type.kind = "class"}}

\* C2: when all members of a class declaration are processed, every class that is the
\* type of a member at nesting level 0 has the record Include in the declaration's map.
C2_LevelZeroInclude == (MapComplete /\ defining.kind = "class") => \A t \in LevelZeroClasses(defining) : KindOf(includes, t.name) = "Include"

\* C2 witness: a class is a member at level 0 and occurs again, later and deeper, in the
\* same declaration, whose map is complete.
C2_Witness == MapComplete /\ defining.kind = "class" /\ \E t \in LevelZeroClasses(defining) : \E i, j \in DOMAIN seen : i < j /\ seen[i].type = t /\ seen[i].level = 0 /\ seen[j].type = t /\ seen[j].level > 0 /\ KindOf(includes, t.name) = "Include"

(***************************************************************************)
(* Properties of the output of a render pass                               *)
(***************************************************************************)
PassDone == pc = "done"
MultiFile == ~options.typeSourceStyle

AllLines == Flatten([i \in DOMAIN finishedFiles |-> finishedFiles[i].lines])

FilesNamed(n) == SelectSeq(finishedFiles, LAMBDA f : f.name = n)

TypeFileNames == {HppFile(nameForNamedType(namedTypes[i])) : i \in DOMAIN namedTypes}

HasLine(f, line) == \E i \in DOMAIN f.lines : f.lines[i] = line

\* The type files the file named n includes with an #include "X.hpp" line.
IncludedBy(n) == {g \in TypeFileNames : \E i \in DOMAIN finishedFiles : finishedFiles[i].name = n /\ HasLine(finishedFiles[i], <<"#include ", "\"">> \o g \o <<"\"">>)}

RECURSIVE IncludeClosure(_)
IncludeClosure(S) == LET more == S \cup UNION {IncludedBy(g) : g \in S} IN IF more = S THEN S ELSE IncludeClosure(more)

\* C3: in the multi-file layout no type file includes itself, directly or through
\* other type files: the #include lines between type files form no cycle.
C3_NoIncludeCycle == (PassDone /\ MultiFile) => \A n \in TypeFileNames : n \notin IncludeClosure(IncludedBy(n))

\* The first line of the full definition of the named type t.
IsDefinitionLine(line, t) ==
    CASE t.kind = "class" -> Len(line) = 3 /\ line[1] \in {"class ", "struct "} /\ line[2] = t.name /\ line[3] = " {"
      [] t.kind = "enum" -> Len(line) > 3 /\ line[1] = "enum class " /\ line[2] = t.name /\ line[Len(line)] = " };"
      [] t.kind = "union" -> Len(line) > 3 /\ line[1] = "typedef " /\ line[Len(line) - 1] = t.name /\ line[Len(line)] = ";"
      [] OTHER -> FALSE

DefinitionCount(lines, t) == Cardinality({i \in DOMAIN lines : IsDefinitionLine(lines[i], t)})

\* C4: when a render pass is done, in either layout, every named type has exactly one
\* full definition in the whole output; in the multi-file layout exactly one file was
\* written for it, and that file holds the definition.
C4_SingleDefinition == PassDone => \A i \in DOMAIN namedTypes : DefinitionCount(AllLines, namedTypes[i]) = 1 /\ (MultiFile => Len(FilesNamed(HppFile(namedTypes[i].name))) = 1 /\ DefinitionCount(FilesNamed(HppFile(namedTypes[i].name))[1].lines, namedTypes[i]) = 1)

\* C4 witness: class B is referenced by two members of A, is forward-declared, and the
\* pass is done with one definition of B.
C4_Witness == PassDone /\ Len(classProps.A) = 2 /\ (\A i \in DOMAIN classProps.A : ClsB \in TypesIn(classProps.A[i].type)) /\ isForwardDeclaredType(ClsB) /\ DefinitionCount(AllLines, ClsB) = 1

\* The ways the type t reaches the class target without entering a class: for each
\* occurrence, whether an optional, array or map lies on the way, and whether a named union does.
RECURSIVE References(_, _, _, _)
References(t, target, wrapped, viaNamedUnion) ==
    CASE t.kind = "class" -> IF t = target THEN {[wrapped |-> wrapped, viaNamedUnion |-> viaNamedUnion]} ELSE {}
      [] t.kind \in {"array", "map"} -> References(t.sub[1], target, TRUE, viaNamedUnion)
      [] t.kind = "union" -> UNION {References(t.sub[i], target, IF unionNeedsName(t) THEN wrapped ELSE TRUE, IF unionNeedsName(t) THEN TRUE ELSE viaNamedUnion) : i \in DOMAIN t.sub}
      [] OTHER -> {}

ReferencesFrom(c, target) == UNION {References(classProps[c.name][i].type, target, FALSE, FALSE) : i \in DOMAIN classProps[c.name]}

\* Class c refers to target, and only behind an optional, an array or a map.
OnlyIndirect(c, target) == ReferencesFrom(c, target) # {} /\ \A r \in ReferencesFrom(c, target) : r.wrapped

\* The same, and no reference passes through a named union.
OnlyPlainIndirect(c, target) == OnlyIndirect(c, target) /\ \A r \in ReferencesFrom(c, target) : ~r.viaNamedUnion

IsForwardDeclarationOf(line, name) == Len(line) = 3 /\ line[1] \in {"class ", "struct "} /\ line[2] = name /\ line[3] = ";"

IsIncludeOf(line, name) == line = <<"#include ", "\"", name, ".hpp", "\"">>

\* The file of type c forward-declares d and does not include d's file.
ForwardsOnly(c, d) == \A i \in DOMAIN finishedFiles : finishedFiles[i].name = HppFile(c.name) => (\E k \in DOMAIN finishedFiles[i].lines : IsForwardDeclarationOf(finishedFiles[i].lines[k], d.name)) /\ (\A k \in DOMAIN finishedFiles[i].lines : ~IsIncludeOf(finishedFiles[i].lines[k], d.name))

\* C5 as stated: in the multi-file layout, two classes that refer to each other only
\* behind an optional, an array or a map each forward-declare the other and do not include it.
C5_MutualCycleAsStated == (PassDone /\ MultiFile /\ OnlyIndirect(ClsA, ClsB) /\ OnlyIndirect(ClsB, ClsA)) => ForwardsOnly(ClsA, ClsB) /\ ForwardsOnly(ClsB, ClsA)

\* C5: in the multi-file layout, two classes that refer to each other only behind an
\* optional, an array or a map, and never through a named union, each forward-declare
\* the other and do not include the other's file.
C5_MutualCycle == (PassDone /\ MultiFile /\ OnlyPlainIndirect(ClsA, ClsB) /\ OnlyPlainIndirect(ClsB, ClsA)) => ForwardsOnly(ClsA, ClsB) /\ ForwardsOnly(ClsB, ClsA)

\* C5 witness: A refers to B behind an optional and behind a map of arrays, B refers to
\* A behind an optional, and both files are written.
C5_Witness == PassDone /\ MultiFile /\ OnlyPlainIndirect(ClsA, ClsB) /\ OnlyPlainIndirect(ClsB, ClsA) /\ Len(classProps.A) = 2 /\ Len(FilesNamed(HppFile("A"))) = 1 /\ Len(FilesNamed(HppFile("B"))) = 1 /\ ForwardsOnly(ClsA, ClsB) /\ ForwardsOnly(ClsB, ClsA)

\* The classes with a member of type optional of themselves and no other reference to themselves.
SelfOptional(c) == c.kind = "class" /\ c.name \in DOMAIN classProps /\ (\E i \in DOMAIN classProps[c.name] : classProps[c.name][i].type = OptT(c)) /\ \A i \in DOMAIN classProps[c.name] : c \in TypesIn(classProps[c.name][i].type) => classProps[c.name][i].type = OptT(c)

\* The file of a type neither includes itself nor forward-declares itself.
NoSelfReference(f) == \A n \in {f.name[1]} : \A k \in DOMAIN f.lines : ~IsIncludeOf(f.lines[k], n) /\ ~IsForwardDeclarationOf(f.lines[k], n)

\* C6: for a class with a member of type optional of itself, the record of the class in
\* its own complete map is ForwardDeclare, and its file holds neither an include of its
\* own file nor a forward declaration of itself.
C6_SelfReference == /\ (MapComplete /\ SelfOptional(defining)) => KindOf(includes, defining.name) = "ForwardDeclare"
                    /\ \A n \in TypeFileNames : \A i \in DOMAIN finishedFiles : (finishedFiles[i].name = n /\ SelfOptional(ClassT(n[1]))) => NoSelfReference(finishedFiles[i])

\* C6 witness: class B has a member of type optional of B, its file was written by the
\* first pass, and the second pass has completed the map of B.
C6_Witness == MapComplete /\ defining = ClsB /\ SelfOptional(ClsB) /\ KindOf(includes, "B") = "ForwardDeclare" /\ \E i \in DOMAIN prevOutput : prevOutput[i].name = HppFile("B") /\ NoSelfReference(prevOutput[i])

\* A line that belongs to a serialization procedure or a decode helper: the head of a
\* from_json or to_json, of get_untyped, of get_optional or of the optional serializer.
IsSerializationLine(line) ==
    \/ line[1] \in {"inline void from_json(const json& _j, ", "inline void to_json(json& _j, const ", "inline json get_untyped(const json &j, const char *property)", "struct adl_serializer<", "static void to_json(json& j, const ", "static "}
    \/ (Len(line) >= 3 /\ line[1] = "inline " /\ line[3] = "<T> get_optional(const json &j, const char *property)")

C9_TypesOnlyNamed == (options.justTypes /\ (haveNamedTypes \/ ~MultiFile)) => \A i \in DOMAIN AllLines : ~IsSerializationLine(AllLines[i])

(***************************************************************************)
(* cppType applied on its own                                              *)
(***************************************************************************)
TypeContexts == {Ctx(fwd, opt, ns) : fwd \in BOOLEAN, opt \in BOOLEAN, ns \in BOOLEAN}

UN == UnionT("UN", <<ClsB, IntT, NullT>>)

\* The alternatives a nullable union is probed with.
NullableAlternatives == {IntT, StrT, Prim("bool"), Prim("double"), Prim("any"), ClsA, ClsB, EnumE, ArrayT(ClsB), MapT(ClsB), ArrayT(OptT(ClsB)), MapT(UB)}

\* The unions with null and exactly one other member, in both orders of the members.
NullableUnions == {UnionT("", <<t, NullT>>) : t \in NullableAlternatives} \cup {UnionT("", <<NullT, t>>) : t \in NullableAlternatives}

ProbeTypes == NullableUnions \cup NullableAlternatives \cup {UB, UN}

\* The declaration IRs the probe runs under: B forward-declared or not.
ProbeDeclarations == {DeclarationsFor([props |-> [A |-> PropsOf(<<sa>>), B |-> PropsOf(<<sb>>)], tops |-> <<[name |-> "A", type |-> ClsA]>>]) : sa \in {ClsB}, sb \in {IntT, OptT(ClsA)}}

InitProbe ==
    /\ classProps = [A |-> <<>>, B |-> <<>>]
    /\ topLevels = <<[name |-> "A", type |-> ClsA]>>
    /\ options \in {o \in Options : o.codeFormat /\ ~o.justTypes}
    /\ proposedFilename \in ProposedFilenames
    /\ generatedFiles = <<>>
    /\ allTypeNames = <<>>
    /\ currentFilename = NoFile
    /\ source = <<>>
    /\ finishedFiles = <<>>
    /\ pc = "idle"
    /\ todo = <<>>
    /\ defining = NoType
    /\ includes = <<>>
    /\ propTypes = <<>>
    /\ seen = <<>>
    /\ passes = 0
    /\ prevOutput = <<>>
    /\ failure = ""

\* The inputs of a call of cppType.
CppTypeInputs == [op : {"cppType"}, t : ProbeTypes, ctx : TypeContexts, withIssues : BOOLEAN]

InitCppType == InitProbe /\ declarations \in ProbeDeclarations /\ probe \in CppTypeInputs

\* One call of cppType.
CppTypeCall ==
    /\ probe \in CppTypeInputs
    /\ probe' = [op |-> "cppType", t |-> probe.t, ctx |-> probe.ctx, withIssues |-> probe.withIssues, result |-> cppType(probe.t, probe.ctx, probe.withIssues)]
    /\ UNCHANGED <<graphVars, generatedFiles, allTypeNames, currentFilename, source, finishedFiles, pc, todo, defining, includes, propTypes, seen, passes, prevOutput, failure>>

NextCppType == CppTypeCall

SpecCppType == InitCppType /\ [][NextCppType]_vars

\* The probed type is a union with null and exactly one other member.
IsNullableProbe == probe.op = "cppType" /\ "result" \in DOMAIN probe /\ probe.t.kind = "union" /\ Len(probe.t.sub) = 2 /\ (\E i \in DOMAIN probe.t.sub : probe.t.sub[i].kind = "null") /\ (\E i \in DOMAIN probe.t.sub : probe.t.sub[i].kind # "null")

TheAlternative(u) == u.sub[CHOOSE i \in DOMAIN u.sub : u.sub[i].kind # "null"]

\* The rendering of a type that is given no forward and no optional indirection.
RECURSIVE PlainRendering(_, _)
PlainRendering(t, ns) ==
    CASE t.kind \in {"class", "enum", "union"} -> (IF ns THEN <<"quicktype", "::">> ELSE <<>>) \o <<t.name>>
      [] t.kind = "array" -> <<"std::vector<">> \o cppType(t.sub[1], Ctx(FALSE, TRUE, ns), FALSE) \o <<">">>
      [] t.kind = "map" -> <<"std::map<std::string, ">> \o cppType(t.sub[1], Ctx(FALSE, TRUE, ns), FALSE) \o <<">">>
      [] t.kind = "any" -> (IF ns THEN <<>> ELSE <<"nlohmann::">>) \o <<"json">>
      [] t.kind = "bool" -> <<"bool">>
      [] t.kind = "integer" -> <<"int64_t">>
      [] t.kind = "double" -> <<"double">>
      [] t.kind = "string" -> <<"std::string">>

\* C8: for a union with null and exactly one other member T, in every context, cppType
\* gives the optional wrapper around the rendering of T without forward or optional
\* indirection: no name of a variant, and no second wrapper around T.
C8_NullableRendering == IsNullableProbe => /\ probe.result = <<"std::shared_ptr", "<">> \o PlainRendering(TheAlternative(probe.t), probe.ctx.inJsonNamespace) \o <<">">>
                                           /\ probe.result[3] # "std::shared_ptr"
                                           /\ \A k \in DOMAIN probe.result : probe.result[k] # "boost::variant<"

\* C8 witness: optional of the forward-declared class B is rendered in a context that
\* asks for both indirections, and comes out wrapped once.
C8_Witness == IsNullableProbe /\ TheAlternative(probe.t) = ClsB /\ isForwardDeclaredType(ClsB) /\ probe.ctx.needsForwardIndirection /\ probe.ctx.needsOptionalIndirection /\ probe.result[1] = "std::shared_ptr" /\ probe.result[3] # "std::shared_ptr"

(***************************************************************************)
(* The emitted union decode applied to a value                             *)
(***************************************************************************)
\* One alternative of each kind a union can hold beside null.
AlternativeOfKind == [bool |-> Prim("bool"), integer |-> IntT, double |-> Prim("double"), string |-> StrT, class |-> ClsA, map |-> MapT(IntT), array |-> ArrayT(IntT), enum |-> EnumE]

\* The order in which the members of the probed unions are stored.
StoredOrder == <<"string", "enum", "map", "double", "class", "array", "integer", "bool">>

\* The unions that need a name: at least two alternatives, unique by kind, with or without null.
ProbeUnions == {UnionT("U", [i \in 1..Len(SelectSeq(StoredOrder, LAMBDA k : k \in ks)) |-> AlternativeOfKind[SelectSeq(StoredOrder, LAMBDA k : k \in ks)[i]]] \o nul) : ks \in {x \in SUBSET DOMAIN AlternativeOfKind : Cardinality(x) > 1}, nul \in {<<>>, <<NullT>>}}

\* The JSON values the decode is run on, by their runtime kind.
JsonValues == {[kind |-> "null", value |-> "null"], [kind |-> "boolean", value |-> "true"], [kind |-> "integer", value |-> "42"], [kind |-> "float", value |-> "1.5"], [kind |-> "string", value |-> "\"x\""], [kind |-> "object", value |-> "{}"], [kind |-> "array", value |-> "[]"]}

\* The kind tests of the JSON library on a value.
Matches(test, v) ==
    CASE test = "is_boolean" -> v.kind = "boolean"
      [] test = "is_number_integer" -> v.kind = "integer"
      [] test = "is_number" -> v.kind \in {"integer", "float"}
      [] test = "is_string" -> v.kind = "string"
      [] test = "is_object" -> v.kind = "object"
      [] test = "is_array" -> v.kind = "array"
      [] OTHER -> FALSE

\* The lines of the first block of a sequence of lines, between its head and its closing brace.
BlockBody(lines) == SubSeq(lines, 2, (CHOOSE k \in DOMAIN lines : lines[k] = <<"}">> /\ \A j \in 1..(k - 1) : lines[j] # <<"}">>) - 1)

IsTestLine(line) == Len(line) = 4 /\ line[1] \in {"if", "else if"} /\ line[2] = " (_j."

\* Runs the if / else-if chain of an emitted decode on v: the assignment of the first
\* test that matches, or the throw.
RECURSIVE RunDecode(_, _)
RunDecode(body, v) ==
    IF body = <<>> THEN <<"fell through">>
    ELSE IF IsTestLine(body[1]) THEN (IF Matches(body[1][3], v) THEN body[2] ELSE RunDecode(SubSeq(body, 3, Len(body)), v))
    ELSE body[1]

\* The inputs of a run of the emitted decode.
DecodeInputs == [op : {"decode"}, union : ProbeUnions, value : JsonValues]

InitUnion == InitProbe /\ declarations = <<[kind |-> "define", type |-> ClsA]>> /\ probe \in DecodeInputs

\* emitUnionFunctions for one union, and the emitted decode run on one value.
UnionDecodeCall ==
    /\ probe \in DecodeInputs
    /\ probe' = [op |-> "decode", union |-> probe.union, value |-> probe.value, emitted |-> emitUnionFunctions(probe.union), outcome |-> RunDecode(BlockBody(emitUnionFunctions(probe.union)), probe.value)]
    /\ UNCHANGED <<graphVars, generatedFiles, allTypeNames, currentFilename, source, finishedFiles, pc, todo, defining, includes, propTypes, seen, passes, prevOutput, failure>>

NextUnion == UnionDecodeCall

SpecUnion == InitUnion /\ [][NextUnion]_vars

Decoded == probe.op = "decode" /\ "outcome" \in DOMAIN probe

\* The kinds and their tests in the order the decode is to try them.
KindOrder == <<"bool", "integer", "double", "string", "class", "map", "array", "enum">>
TestOfKind == [bool |-> "is_boolean", integer |-> "is_number_integer", double |-> "is_number", string |-> "is_string", class |-> "is_object", map |-> "is_object", array |-> "is_array", enum |-> "is_string"]

KindsOf(u) == {u.sub[i].kind : i \in {j \in DOMAIN u.sub : u.sub[j].kind # "null"}}

ExpectedKinds(u) == SelectSeq(KindOrder, LAMBDA k : k \in KindsOf(u))

EmittedTests(lines) == [i \in 1..Len(SelectSeq(BlockBody(lines), IsTestLine)) |-> SelectSeq(BlockBody(lines), IsTestLine)[i][3]]

\* The assignment the decode makes for the alternative of kind k.
AssignmentOf(k) == <<"_x = _j.get<">> \o PlainRendering(AlternativeOfKind[k], TRUE) \o <<">();">>

ThrowLine == <<"else throw \"Could not deserialize\";">>

FirstMatch(u, v) == CHOOSE i \in DOMAIN ExpectedKinds(u) : Matches(TestOfKind[ExpectedKinds(u)[i]], v) /\ \A j \in 1..(i - 1) : ~Matches(TestOfKind[ExpectedKinds(u)[j]], v)

\* C10: the emitted union decode tests the kinds in the order boolean, integer, double,
\* string, class, map, array, enum, restricted to the kinds of the alternatives; the
\* first test that matches the value selects its alternative, and a value that matches
\* no test raises. For the union of integer and string, 42 selects integer, "x" selects
\* string and true raises.
C10_UnionDecodeOrder == Decoded =>
    /\ EmittedTests(probe.emitted) = [i \in DOMAIN ExpectedKinds(probe.union) |-> TestOfKind[ExpectedKinds(probe.union)[i]]]
    /\ (\E i \in DOMAIN ExpectedKinds(probe.union) : Matches(TestOfKind[ExpectedKinds(probe.union)[i]], probe.value)) => probe.outcome = AssignmentOf(ExpectedKinds(probe.union)[FirstMatch(probe.union, probe.value)])
    /\ (\A i \in DOMAIN ExpectedKinds(probe.union) : ~Matches(TestOfKind[ExpectedKinds(probe.union)[i]], probe.value)) => probe.outcome = ThrowLine
    /\ ({"integer", "double"} \subseteq KindsOf(probe.union) /\ probe.value.kind = "integer") => probe.outcome = AssignmentOf("integer")
    /\ KindsOf(probe.union) = {"integer", "string"} => 
        /\ probe.value.value = "42" => probe.outcome = <<"_x = _j.get<", "int64_t", ">();">>
        /\ probe.value.value = "\"x\"" => probe.outcome = <<"_x = _j.get<", "std::string", ">();">>
        /\ probe.value.value = "true" => probe.outcome = ThrowLine

\* C10 witness: a union with an integer and a double alternative has decoded an integer
\* value into the integer alternative.
C10_Witness == Decoded /\ {"integer", "double"} \subseteq KindsOf(probe.union) /\ probe.value.kind = "integer" /\ probe.outcome = <<"_x = _j.get<", "int64_t", ">();">>

(***************************************************************************)
(* The emitted constraint check applied to a value                         *)
(***************************************************************************)
Absent == <<>>

IntegerAttrs == {a \in [minValue : {Absent, <<1>>, <<6>>}, maxValue : {Absent, <<10>>, <<4>>}, minLength : {Absent}, maxLength : {Absent}, pattern : {Absent}] : a.minValue # Absent \/ a.maxValue # Absent}

StringAttrs == {a \in [minValue : {Absent}, maxValue : {Absent}, minLength : {Absent, <<2>>, <<4>>}, maxLength : {Absent, <<3>>, <<1>>}, pattern : {Absent, <<"^a">>}] : a.minLength # Absent \/ a.maxLength # Absent \/ a.pattern # Absent}

IntegerValues == {[kind |-> "integer", value |-> n] : n \in {0, 5, 11}}

\* String values: their text, their length and the patterns regex_search finds in them.
StringValues == {[kind |-> "string", value |-> "", length |-> 0, found |-> {}], [kind |-> "string", value |-> "a", length |-> 1, found |-> {"^a"}], [kind |-> "string", value |-> "ab", length |-> 2, found |-> {"^a"}], [kind |-> "string", value |-> "bcd", length |-> 3, found |-> {}], [kind |-> "string", value |-> "abcde", length |-> 5, found |-> {"^a"}], [kind |-> "string", value |-> "bcdef", length |-> 5, found |-> {}]}

CheckInputs == [op : {"check"}, attr : IntegerAttrs, value : IntegerValues] \cup [op : {"check"}, attr : StringAttrs, value : StringValues]

\* The number a token of constrArg stands for.
ParseBound(token) == IF token = "boost::none" THEN Absent ELSE <<CHOOSE n \in 0..20 : ToString(n) = token>>

\* The bundle the emitted constructor builds from the arguments of constrArg, by getter.
BundleOf(args) == [GetMinValue |-> ParseBound(args[2]), GetMaxValue |-> ParseBound(args[4]), GetMinLength |-> ParseBound(args[6]), GetMaxLength |-> ParseBound(args[8]), GetPattern |-> IF args[10] = "boost::none" THEN Absent ELSE <<args[11]>>]

\* The comparison a guard of the emitted check makes between the value and a present bound.
GuardHolds(test, v, bound) ==
    CASE test = "() != boost::none && value < *c." -> v.value < bound
      [] test = "() != boost::none && value > *c." -> v.value > bound
      [] test = "() != boost::none && value.length() < *c." -> v.length < bound
      [] test = "() != boost::none && value.length() > *c." -> v.length > bound
      [] OTHER -> FALSE

\* Runs the statements of an emitted check function on the bundle c and the value v: the
\* exception of the first throw reached, or "no error".
RECURSIVE RunCheck(_, _, _)
RunCheck(lines, c, v) ==
    IF lines = <<>> THEN "no error"
    ELSE IF lines[1][1] = "if (c." /\ Len(lines[1]) = 6
         THEN (IF c[lines[1][2]] # Absent /\ GuardHolds(lines[1][3], v, c[lines[1][2]][1]) THEN lines[2][2] ELSE RunCheck(SubSeq(lines, 4, Len(lines)), c, v))
    ELSE IF lines[1][1] = "if (c." /\ Len(lines[1]) = 4
         THEN (IF c[lines[1][2]] # Absent /\ c[lines[1][2]][1] \notin v.found THEN lines[5][2] ELSE RunCheck(SubSeq(lines, 8, Len(lines)), c, v))
    ELSE RunCheck(Tail(lines), c, v)

\* The overload of the check function the C++ compiler selects for the value.
CheckFunctionFor(v) == IF v.kind = "integer" THEN IntegerCheckFunction ELSE StringCheckFunction

InitCheck == InitProbe /\ declarations = <<[kind |-> "define", type |-> ClsA]>> /\ probe \in CheckInputs

\* generateClassConstraints for one constrained property, and the emitted check run on one value.
CheckConstraintCall ==
    /\ probe \in CheckInputs
    /\ probe' = [op |-> "check", attr |-> probe.attr, value |-> probe.value, bundle |-> BundleOf(constrArg(probe.attr)), outcome |-> RunCheck(SubSeq(CheckFunctionFor(probe.value), 2, Len(CheckFunctionFor(probe.value)) - 1), BundleOf(constrArg(probe.attr)), probe.value)]
    /\ UNCHANGED <<graphVars, generatedFiles, allTypeNames, currentFilename, source, finishedFiles, pc, todo, defining, includes, propTypes, seen, passes, prevOutput, failure>>

NextCheck == CheckConstraintCall

SpecCheck == InitCheck /\ [][NextCheck]_vars

Checked == probe.op = "check" /\ "outcome" \in DOMAIN probe

Below(x, bound) == bound # Absent /\ x < bound[1]
Above(x, bound) == bound # Absent /\ x > bound[1]

\* The error the checks are to raise: minimum before maximum, and for strings minimum
\* length, maximum length, then pattern.
ExpectedError(a, v) ==
    IF v.kind = "integer"
    THEN (IF Below(v.value, a.minValue) THEN "ValueTooLowException" ELSE IF Above(v.value, a.maxValue) THEN "ValueTooHighException" ELSE "no error")
    ELSE (IF Below(v.length, a.minLength) THEN "ValueTooShortException" ELSE IF Above(v.length, a.maxLength) THEN "ValueTooLongException" ELSE IF a.pattern # Absent /\ a.pattern[1] \notin v.found THEN "InvalidPatternException" ELSE "no error")

\* C11: the emitted validation raises the error of the first failing check in the order
\* minimum, maximum (integers) and minimum length, maximum length, pattern (strings); an
\* absent bound is not checked, and a value within all present bounds raises nothing.
\* With minimum 1 and maximum 10: 0 raises too-low, 11 too-high, 5 nothing.
C11_FailFastOrder == Checked =>
    /\ probe.outcome = ExpectedError(probe.attr, probe.value)
    /\ (probe.attr.minValue = <<1>> /\ probe.attr.maxValue = <<10>>) =>
        /\ probe.value.value = 0 => probe.outcome = "ValueTooLowException"
        /\ probe.value.value = 11 => probe.outcome = "ValueTooHighException"
        /\ probe.value.value = 5 => probe.outcome = "no error"

\* C11 witness: the value 5 is below the minimum 6 and above the maximum 4, and the check
\* has raised too-low.
C11_Witness == Checked /\ probe.attr.minValue = <<6>> /\ probe.attr.maxValue = <<4>> /\ probe.value.value = 5 /\ probe.outcome = "ValueTooLowException"

(***************************************************************************)
(* The emitted class decode and encode applied to an object                *)
(***************************************************************************)
\* The class of the scenario: {name: string, age: optional integer}.
PersonProps == <<[name |-> "name", jsonName |-> "name", type |-> StrT], [name |-> "age", jsonName |-> "age", type |-> OptT(IntT)]>>

RoundTripPool == {StrT, IntT, OptT(IntT), OptT(ClsB), UN, UB, Prim("any"), NullT}

RoundTripProps == {PersonProps} \cup {PropsOf(ts) : ts \in TypeSeqs(RoundTripPool, 2)}

\* What the input object holds under the wire name of each property.
KeyStates == {"missing", "null", "value"}

RoundTripInputs == UNION {[op : {"roundtrip"}, props : {ps}, object : [DOMAIN ps -> KeyStates]] : ps \in RoundTripProps}

InitRoundTrip ==
    /\ probe \in RoundTripInputs
    /\ classProps = [A |-> probe.props, B |-> <<>>]
    /\ topLevels = <<[name |-> "A", type |-> ClsA]>>
    /\ declarations = DeclarationsFor([props |-> classProps, tops |-> topLevels])
    /\ options \in {o \in Options : ~o.justTypes}
    /\ proposedFilename \in ProposedFilenames
    /\ generatedFiles = <<>>
    /\ allTypeNames = <<>>
    /\ currentFilename = NoFile
    /\ source = <<>>
    /\ finishedFiles = <<>>
    /\ pc = "idle"
    /\ todo = <<>>
    /\ defining = NoType
    /\ includes = <<>>
    /\ propTypes = <<>>
    /\ seen = <<>>
    /\ passes = 0
    /\ prevOutput = <<>>
    /\ failure = ""

\* The lines that hold the serialization procedures and their helpers, in either layout.
ProgramLines == IF options.typeSourceStyle THEN SingleSourceLines ELSE Flatten([i \in DOMAIN HelperAndGenerators |-> HelperAndGenerators[i].lines])

\* The body of the block of lines that starts with the line head.
BodyOf(lines, head) == IF \E k \in DOMAIN lines : lines[k] = head THEN BlockBody(SubSeq(lines, CHOOSE k \in DOMAIN lines : lines[k] = head, Len(lines))) ELSE <<>>

Declares(lines, head) == \E k \in DOMAIN lines : lines[k] = head

\* The token of a line that follows the token opener.
TokenAfter(line, openers) == line[(CHOOSE k \in DOMAIN line : line[k] \in openers) + 1]

HasToken(line, tokens) == \E k \in DOMAIN line : line[k] \in tokens

\* One statement of an emitted class decode run on the object: the value the member gets,
\* "absent" for an empty optional, or "throws".
DecodeStatement(line, lines, object) ==
    IF HasToken(line, {"get_optional<"})
    THEN (IF ~Declares(lines, <<"inline ", "std::shared_ptr", "<T> get_optional(const json &j, const char *property)", " {">>) THEN "undeclared"
          ELSE IF object[TokenAfter(line, {">(_j, \""})] = "missing" THEN "absent"
          ELSE IF object[TokenAfter(line, {">(_j, \""})] = "null" THEN "absent" ELSE "value")
    ELSE IF HasToken(line, {"get_untyped(_j, \""})
    THEN (IF object[TokenAfter(line, {"get_untyped(_j, \""})] = "value" THEN "value" ELSE "null")
    ELSE IF HasToken(line, {"( _j.at(\"", " = _j.at(\""})
    THEN (IF object[TokenAfter(line, {"( _j.at(\"", " = _j.at(\""})] = "missing" THEN "throws"
          ELSE IF object[TokenAfter(line, {"( _j.at(\"", " = _j.at(\""})] = "null" /\ ~HasToken(line, {"json"}) THEN "throws" ELSE object[TokenAfter(line, {"( _j.at(\"", " = _j.at(\""})])
    ELSE "unknown statement"

\* One statement of an emitted class encode: the key it writes and the JSON it writes there.
EncodeStatement(line, lines, member) ==
    [key |-> TokenAfter(line, {"_j[\""}),
     json |-> IF member = "absent" THEN (IF Declares(lines, <<"if (!opt) j = nullptr; else j = *opt;">>) THEN "null" ELSE "undeclared") ELSE member]

ObjectOf(ps, states) == [k \in {ps[i].jsonName : i \in DOMAIN ps} |-> states[CHOOSE i \in DOMAIN ps : ps[i].jsonName = k]]

ClassDecodeHead(name) == <<"inline void from_json(const json& _j, ">> \o ourQualifier(TRUE) \o <<name, "& _x)", " {">>
ClassEncodeHead(name) == <<"inline void to_json(json& _j, const ">> \o ourQualifier(TRUE) \o <<name, "& _x)", " {">>

\* The members of A after the emitted decode of the object, one per statement.
Decoded_A(lines, object) == [i \in DOMAIN BodyOf(lines, ClassDecodeHead("A")) |-> DecodeStatement(BodyOf(lines, ClassDecodeHead("A"))[i], lines, object)]

\* The object the emitted encode writes for the members.
Encoded_A(lines, members) == [i \in 1..(Len(BodyOf(lines, ClassEncodeHead("A"))) - 1) |-> EncodeStatement(BodyOf(lines, ClassEncodeHead("A"))[i + 1], lines, members[i])]

\* The emitted decode of A run on one object, and the emitted encode run on its result.
RoundTripCall ==
    /\ probe \in RoundTripInputs
    /\ probe' = [op |-> "roundtrip", props |-> probe.props, object |-> probe.object,
                 decodeBody |-> BodyOf(ProgramLines, ClassDecodeHead("A")),
                 members |-> Decoded_A(ProgramLines, ObjectOf(probe.props, probe.object)),
                 encoded |-> Encoded_A(ProgramLines, Decoded_A(ProgramLines, ObjectOf(probe.props, probe.object)))]
    /\ UNCHANGED <<graphVars, generatedFiles, allTypeNames, currentFilename, source, finishedFiles, pc, todo, defining, includes, propTypes, seen, passes, prevOutput, failure>>

NextRoundTrip == RoundTripCall

SpecRoundTrip == InitRoundTrip /\ [][NextRoundTrip]_vars

RoundTripped == probe.op = "roundtrip" /\ "encoded" \in DOMAIN probe

HasNull(t) == t.kind = "union" /\ \E i \in DOMAIN t.sub : t.sub[i].kind = "null"

\* C12: for every class property whose type is a union containing null, the emitted decode
\* reads the property with get_optional, a missing key gives an absent member and not a
\* failure, and the emitted encode writes an explicit null under the wire name of an
\* absent member. For {name: string, age: optional integer}, {"name": "Ada"} decodes to
\* age absent and encodes to {"name": "Ada", "age": null}.
C12_OptionalRoundTrip == RoundTripped =>
    /\ \A i \in DOMAIN probe.props : HasNull(probe.props[i].type) =>
        /\ Len(probe.decodeBody) = Len(probe.props)
        /\ HasToken(probe.decodeBody[i], {"get_optional<"})
        /\ probe.object[i] = "missing" => probe.members[i] = "absent"
        /\ probe.members[i] = "absent" => probe.encoded[i] = [key |-> probe.props[i].jsonName, json |-> "null"]
    /\ (probe.props = PersonProps /\ probe.object = <<"value", "missing">>) => (probe.members = <<"value", "absent">> /\ probe.encoded = <<[key |-> "name", json |-> "value"], [key |-> "age", json |-> "null"]>>)

\* C12 witness: the object {"name": "Ada"} has been decoded and encoded again by the class
\* {name: string, age: optional integer}.
C12_Witness == RoundTripped /\ probe.props = PersonProps /\ probe.object = <<"value", "missing">> /\ probe.members[2] = "absent" /\ probe.encoded[2].json = "null"

(***************************************************************************)
(* The emitted enum decode applied to a value                              *)
(***************************************************************************)
ProbeEnums == {EnumT(n) : n \in DOMAIN EnumTable}

EnumJsonValues == {[kind |-> "string", text |-> t] : t \in {"red", "green", "blue", "RED", "dark green", ""}} \cup {[kind |-> "integer", text |-> "0"], [kind |-> "null", text |-> "null"]}

EnumDecodeInputs == [op : {"enum"}, enum : ProbeEnums, value : EnumJsonValues]

InitEnum == InitProbe /\ declarations = <<[kind |-> "define", type |-> ClsA]>> /\ probe \in EnumDecodeInputs

IsEnumTestLine(line) == Len(line) > 3 /\ line[2] = "if (_j == \""

\* Runs the if / else-if chain of an emitted enum decode on v: the case assigned by the
\* first comparison that is equal, or the statement after the chain.
RECURSIVE RunEnumDecode(_, _)
RunEnumDecode(body, v) ==
    IF body = <<>> THEN <<"fell through">>
    ELSE IF IsEnumTestLine(body[1]) THEN (IF v.kind = "string" /\ v.text = body[1][3] THEN <<body[1][Len(body[1]) - 1]>> ELSE RunEnumDecode(Tail(body), v))
    ELSE body[1]

\* emitEnumFunctions for one enum, and the emitted decode run on one value.
EnumDecodeCall ==
    /\ probe \in EnumDecodeInputs
    /\ probe' = [op |-> "enum", enum |-> probe.enum, value |-> probe.value, emitted |-> emitEnumFunctions(probe.enum, probe.enum.name), outcome |-> RunEnumDecode(BlockBody(emitEnumFunctions(probe.enum, probe.enum.name)), probe.value)]
    /\ UNCHANGED <<graphVars, generatedFiles, allTypeNames, currentFilename, source, finishedFiles, pc, todo, defining, includes, propTypes, seen, passes, prevOutput, failure>>

NextEnum == EnumDecodeCall

SpecEnum == InitEnum /\ [][NextEnum]_vars

EnumDecoded == probe.op = "enum" /\ "outcome" \in DOMAIN probe

\* The wire labels the emitted decode compares against, in the order of its comparisons.
ComparedLabels(lines) == [i \in 1..Len(SelectSeq(BlockBody(lines), IsEnumTestLine)) |-> SelectSeq(BlockBody(lines), IsEnumTestLine)[i][3]]

LabelMatches(cases, v) == {i \in DOMAIN cases : v.kind = "string" /\ cases[i].jsonName = v.text}

SchemaMismatch == <<"else throw \"Input JSON does not conform to schema\";">>

\* C13: the emitted enum decode compares the value against the wire label of each case in
\* declared order and selects the case of the first equal label; a value equal to no label
\* raises. For {RED: "red", GREEN: "green"}: "green" gives GREEN and "blue" raises.
C13_EnumDecode == EnumDecoded =>
    /\ ComparedLabels(probe.emitted) = [i \in DOMAIN EnumTable[probe.enum.name] |-> EnumTable[probe.enum.name][i].jsonName]
    /\ LabelMatches(EnumTable[probe.enum.name], probe.value) # {} => probe.outcome = <<EnumTable[probe.enum.name][CHOOSE i \in LabelMatches(EnumTable[probe.enum.name], probe.value) : \A j \in LabelMatches(EnumTable[probe.enum.name], probe.value) : i <= j].name>>
    /\ LabelMatches(EnumTable[probe.enum.name], probe.value) = {} => probe.outcome = SchemaMismatch
    /\ probe.enum.name = "E" => 
        /\ probe.value = [kind |-> "string", text |-> "green"] => probe.outcome = <<"GREEN">>
        /\ probe.value = [kind |-> "string", text |-> "blue"] => probe.outcome = SchemaMismatch

\* C13 witness: "green" has been decoded by the enum whose case RED has the label "green".
C13_Witness == EnumDecoded /\ probe.enum.name = "Swapped" /\ probe.value.text = "green" /\ probe.outcome = <<"RED">>

(***************************************************************************)
(* The files of a multi-file pass                                          *)
(***************************************************************************)
FileNames == [i \in DOMAIN finishedFiles |-> finishedFiles[i].name]

\* The names of the type files, in the order of forEachNamedType.
TypeFileSeq == [i \in DOMAIN namedTypes |-> HppFile(nameForNamedType(namedTypes[i]))]

IncludesEveryTypeFile(f) == \A i \in DOMAIN TypeFileSeq : HasLine(f, <<"#include ", "\"">> \o TypeFileSeq[i] \o <<"\"">>)

HoldsSerialization(f) == \E k \in DOMAIN f.lines : IsSerializationLine(f.lines[k])

\* The file holds the decode and the encode of every named class and enum.
HoldsProcedures(f) == \A i \in DOMAIN namedTypes : namedTypes[i].kind \in {"class", "enum"} => HasLine(f, ClassDecodeHead(namedTypes[i].name)) /\ HasLine(f, ClassEncodeHead(namedTypes[i].name))

IsAggregator(f) == f.name \notin Range(TypeFileSeq) /\ f.name # HelperFile /\ IncludesEveryTypeFile(f) /\ HoldsSerialization(f)

\* C14 as stated: a multi-file pass writes one file per named type, one helper file and
\* one aggregator file that includes every type file and holds serialization procedures,
\* and nothing else.
C14_MultiFileAsStated == (PassDone /\ MultiFile) =>
    /\ Len(FilesNamed(HelperFile)) = 1
    /\ Cardinality({i \in DOMAIN finishedFiles : IsAggregator(finishedFiles[i])}) = 1
    /\ \A i \in DOMAIN TypeFileSeq : Len(FilesNamed(TypeFileSeq[i])) = 1
    /\ Len(finishedFiles) = Len(TypeFileSeq) + 2

\* The file with the proposed name, written unless a type file has that name.
ProposedFileSeq == IF proposedFilename \in Range(TypeFileSeq) THEN <<>> ELSE <<proposedFilename>>

\* C14: a multi-file pass over a graph with a named type writes, in this order: when
\* justTypes is off, helper.hpp and Generators.hpp, which includes every type file and
\* holds the decode and encode of every named class and enum; one file per named type;
\* and, unless a type file has the proposed name, the file with the proposed name, which
\* includes every type file and holds no serialization procedure. With justTypes there
\* is no helper file and no Generators.hpp. Over a graph without named types and with
\* justTypes off the pass writes helper.hpp and the file with the proposed name.
C14_MultiFile == (PassDone /\ MultiFile) =>
    /\ haveNamedTypes => FileNames = (IF options.justTypes THEN <<>> ELSE <<HelperFile, GeneratorsFile>>) \o TypeFileSeq \o ProposedFileSeq
    /\ (~haveNamedTypes /\ ~options.justTypes) => FileNames = <<HelperFile, proposedFilename>>
    /\ \A i \in DOMAIN finishedFiles :
        /\ (finishedFiles[i].name = GeneratorsFile) => IncludesEveryTypeFile(finishedFiles[i]) /\ HoldsProcedures(finishedFiles[i])
        /\ (finishedFiles[i].name = proposedFilename /\ proposedFilename \notin Range(TypeFileSeq)) => IncludesEveryTypeFile(finishedFiles[i]) /\ ~HoldsSerialization(finishedFiles[i])

\* C14 witness: a multi-file pass with serialization over three or more named types, one
\* of whose files has the proposed name, is done: helper.hpp, Generators.hpp and the type files.
C14_Witness == PassDone /\ MultiFile /\ ~options.justTypes /\ Len(namedTypes) >= 3 /\ proposedFilename \in Range(TypeFileSeq) /\ FileNames = <<HelperFile, GeneratorsFile>> \o TypeFileSeq

\* A multi-file pass with serialization that writes the file with the proposed name.
C14_ProposedFileWritten == PassDone /\ MultiFile /\ ~options.justTypes /\ haveNamedTypes /\ Len(finishedFiles) = Len(TypeFileSeq) + 3

(***************************************************************************)
(* Forward declarations in the output                                      *)
(***************************************************************************)
IsEnumForwardDeclaration(line) == Len(line) = 5 /\ line[1] = "enum class " /\ line[3] = " : " /\ line[5] = ";"

IsForwardDeclaration(line) == Len(line) = 3 /\ line[1] \in {"class ", "struct "} /\ line[3] = ";"

NamesOfKind(kinds) == {nameForNamedType(namedTypes[i]) : i \in {j \in DOMAIN namedTypes : namedTypes[j].kind \in kinds}}

\* The enums in the types of the members of class c.
EnumsOf(c) == {t \in UNION {TypesIn(classProps[c.name][i].type) : i \in DOMAIN classProps[c.name]} : t.kind = "enum"}

\* C15 as stated: no file of the output holds a forward declaration of an enum, and a
\* forward declaration names a class or a union.
C15_ForwardDeclarationsAsStated == PassDone => \A i \in DOMAIN finishedFiles : \A k \in DOMAIN finishedFiles[i].lines :
    /\ ~IsEnumForwardDeclaration(finishedFiles[i].lines[k])
    /\ IsForwardDeclaration(finishedFiles[i].lines[k]) => finishedFiles[i].lines[k][2] \in NamesOfKind({"class", "union"})

\* C15: a forward declaration with the class keyword names a class, never a union, an
\* enum or a primitive; a forward declaration of an enum (enum class E : int;) occurs in
\* the multi-file layout only, names an enum, and the file of a class holds one for
\* exactly the enums in the types of the class's members.
C15_ForwardDeclarations == PassDone =>
    /\ \A i \in DOMAIN finishedFiles : \A k \in DOMAIN finishedFiles[i].lines :
        /\ IsForwardDeclaration(finishedFiles[i].lines[k]) => finishedFiles[i].lines[k][2] \in NamesOfKind({"class"})
        /\ IsEnumForwardDeclaration(finishedFiles[i].lines[k]) => MultiFile /\ finishedFiles[i].lines[k][2] \in NamesOfKind({"enum"})
    /\ MultiFile => \A c \in Range(namedTypes) : \A e \in Range(namedTypes) : (c.kind = "class" /\ e.kind = "enum") =>
        \A i \in DOMAIN finishedFiles : finishedFiles[i].name = HppFile(c.name) => (HasLine(finishedFiles[i], <<"enum class ", e.name, " : ", options.enumType, ";">>) <=> e \in EnumsOf(c))

\* C15 witness: in the multi-file layout the file of class A forward-declares the enum E
\* and the class B.
C15_Witness == PassDone /\ MultiFile /\ \E i \in DOMAIN finishedFiles : finishedFiles[i].name = HppFile("A") /\ HasLine(finishedFiles[i], <<"enum class ", "E", " : ", "int", ";">>) /\ \E k \in DOMAIN finishedFiles[i].lines : IsForwardDeclarationOf(finishedFiles[i].lines[k], "B")

(***************************************************************************)
(* The members of an emitted class                                         *)
(***************************************************************************)
\* The lines of the definition of class c in the output, between its head and its };.
ClassBody(c) ==
    LET head == <<ClassKeyword, c.name, " {">>
        from == SubSeq(AllLines, CHOOSE k \in DOMAIN AllLines : AllLines[k] = head, Len(AllLines))
    IN SubSeq(from, 2, (CHOOSE k \in DOMAIN from : from[k] = <<"};">> /\ \A j \in 1..(k - 1) : from[j] # <<"};">>) - 1)

FieldLine(p) == cppType(p.type, MemberCtx, TRUE) \o <<" ", p.name, ";">>

\* The field of p is declared in the body under the access specifier access.
FieldUnder(body, p, access) == \E k \in DOMAIN body : body[k] = FieldLine(p) /\ \E a \in 1..(k - 1) : body[a] = <<access>> /\ \A j \in (a + 1)..(k - 1) : body[j] \notin {<<"private:">>, <<"public:">>}

\* The body has a line that declares the member function prefix + the name of p.
HasAccessor(body, prefix, p) == \E k \in DOMAIN body : \E j \in 1..(Len(body[k]) - 1) : body[k][j] = prefix /\ body[k][j + 1] = p.name

Validates(body) == \E k \in DOMAIN body : HasToken(body[k], {"CheckConstraint", "ClassMemberConstraints"})

EmittedClasses == {c \in Range(namedTypes) : c.kind = "class"}

\* In a class of plain fields every property is a field, and the body has no access
\* specifier, no accessor and no validation.
TransparentClass(c) == LET body == ClassBody(c) IN
    /\ \A i \in DOMAIN classProps[c.name] : \E k \in DOMAIN body : body[k] = FieldLine(classProps[c.name][i])
    /\ Len(body) = Len(classProps[c.name])
    /\ ~Validates(body)

\* C16 as stated: with accessors every property has a private field, a read accessor, a
\* mutable-access accessor and a write accessor; without, every property is a plain
\* public field and the class has no accessor and no validation.
C16_AccessorsAsStated == PassDone => \A c \in EmittedClasses :
    IF options.codeFormat
    THEN \A i \in DOMAIN classProps[c.name] : LET p == classProps[c.name][i] IN FieldUnder(ClassBody(c), p, "private:") /\ HasAccessor(ClassBody(c), "get_", p) /\ HasAccessor(ClassBody(c), "getMutable_", p) /\ HasAccessor(ClassBody(c), "set_", p)
    ELSE TransparentClass(c)

\* C16: with accessors every property has a private field, a read accessor and a write
\* accessor; it has a mutable-access accessor iff its type is not a union with a null
\* member, and its write accessor calls CheckConstraint iff the property is constrained.
\* Without accessors every property is a plain public field and the class has no
\* accessor and no validation.
C16_Accessors == PassDone => \A c \in EmittedClasses :
    IF options.codeFormat
    THEN \A i \in DOMAIN classProps[c.name] : LET p == classProps[c.name][i] body == ClassBody(c) IN
        /\ FieldUnder(body, p, "private:")
        /\ HasAccessor(body, "get_", p)
        /\ HasAccessor(body, "set_", p)
        /\ HasAccessor(body, "getMutable_", p) <=> ~IsNullableProperty(p.type)
        /\ (\E k \in DOMAIN body : HasToken(body[k], {"set_"}) /\ HasToken(body[k], {p.name}) /\ HasToken(body[k], {"CheckConstraint"})) <=> HasConstraints(p.type)
    ELSE TransparentClass(c)

\* C16 witness: a class with accessors has an optional property, without mutable-access
\* accessor, and a property that is not optional, with one; another class has a
\* constrained property.
C16_Witness == PassDone /\ options.codeFormat /\ Len(classProps.A) = 2 /\ IsNullableProperty(classProps.A[1].type) /\ ~IsNullableProperty(classProps.A[2].type) /\ ClsA \in EmittedClasses /\ ~HasAccessor(ClassBody(ClsA), "getMutable_", classProps.A[1]) /\ HasAccessor(ClassBody(ClsA), "getMutable_", classProps.A[2]) /\ ClsB \in EmittedClasses /\ classProps.B = PropsOf(<<BoundedInt>>) /\ Validates(ClassBody(ClsB))

\* A class of plain fields with a constrained property is written.
C16_TransparentWritten == PassDone /\ ~options.codeFormat /\ ClsB \in EmittedClasses /\ classProps.B = PropsOf(<<BoundedInt>>) /\ TransparentClass(ClsB)

(***************************************************************************)
(* The name a checked setter passes to the check function                  *)
(***************************************************************************)
\* The write accessor of property p in a class body.
SetterOf(body, p) == body[CHOOSE k \in DOMAIN body : \E j \in 1..(Len(body[k]) - 1) : body[k][j] = "set_" /\ body[k][j + 1] = p.name]

\* The string literal a checked setter passes as the parameter name of CheckConstraint,
\* which the check functions put into the message of the error they throw.
NameArgument(line) == TokenAfter(line, {"(\""})

\* The constrained properties of c whose wire name differs from the emitted identifier.
RenamedConstrained(c) == {p \in Range(classProps[c.name]) : HasConstraints(p.type) /\ p.jsonName # p.name}

\* C17: in a class with accessors, the write accessor of a constrained property whose
\* wire name differs from its identifier passes the wire name and the value to
\* CheckConstraint, so that the error of a failing check carries the wire name.
C17_ErrorCarriesWireName == (PassDone /\ options.codeFormat) => \A c \in EmittedClasses : \A p \in RenamedConstrained(c) :
    /\ HasToken(SetterOf(ClassBody(c), p), {"CheckConstraint"})
    /\ HasToken(SetterOf(ClassBody(c), p), {", value); this->", ", *value); this->"})
    /\ NameArgument(SetterOf(ClassBody(c), p)) = p.jsonName

\* What the code does: the write accessor passes the emitted identifier.
C17_ErrorCarriesIdentifier == (PassDone /\ options.codeFormat) => \A c \in EmittedClasses : \A p \in RenamedConstrained(c) :
    /\ HasToken(SetterOf(ClassBody(c), p), {"CheckConstraint"})
    /\ HasToken(SetterOf(ClassBody(c), p), {", value); this->", ", *value); this->"})
    /\ NameArgument(SetterOf(ClassBody(c), p)) = p.name

\* A class with a constrained property named x1 on the wire x-1 is written.
C17_Reached == PassDone /\ options.codeFormat /\ \E c \in EmittedClasses : \E p \in RenamedConstrained(c) : NameArgument(SetterOf(ClassBody(c), p)) = "x1" /\ p.jsonName = "x-1"

(***************************************************************************)
(* The occurrences of unions and of their alternatives                     *)
(***************************************************************************)
\* The nesting levels at which u occurs in t: an array, a map and a union each add one.
RECURSIVE Depths(_, _, _)
Depths(t, u, l) == IF t = u THEN {l} ELSE IF t.kind \in {"array", "map", "union"} THEN UNION {Depths(t.sub[i], u, l + 1) : i \in DOMAIN t.sub} ELSE {}

MemberTypes(c) == {classProps[c.name][i].type : i \in DOMAIN classProps[c.name]}

IsNamedUnion(t) == t.kind = "union" /\ unionNeedsName(t)

\* The named unions that occur in a member of class c below an array or a map, and are
\* not the type of a member of c.
NestedNamedUnions(c) == {u \in UNION {TypesIn(m) : m \in MemberTypes(c)} : IsNamedUnion(u) /\ u \notin MemberTypes(c)}

ClassAlternatives(u) == {t \in Range(u.sub) : t.kind = "class"}

HasRecord(t, l, forced) == \E i \in DOMAIN seen : seen[i].type = t /\ seen[i].level = l /\ seen[i].forceInclude = forced

C18_UnionDeclaration == MapComplete /\ defining = UB /\ HasRecord(ClsB, 1, FALSE)

(***************************************************************************)
(* The occurrence records and the map of one class declaration             *)
(***************************************************************************)
\* A union with an array and a map among its alternatives, and one with an enum.
UC == UnionT("UC", <<ArrayT(ClsB), MapT(ClsA), IntT>>)
UE == UnionT("UE", <<EnumE, ClsB>>)

OccurrencePool == {ClsB, OptT(ClsB), ArrayT(ClsB), MapT(ArrayT(ClsB)), EnumE, ArrayT(EnumE), UB, UC, UE, ArrayT(UB)}

IncludeInputs == [op : {"includes"}, members : TypeSeqs(OccurrencePool, MaxProps)]

InitIncludes ==
    /\ probe \in IncludeInputs
    /\ classProps = [A |-> PropsOf(probe.members), B |-> <<>>]
    /\ topLevels = <<[name |-> "A", type |-> ClsA]>>
    /\ declarations = <<[kind |-> "define", type |-> ClsA]>>
    /\ options \in {o \in Options : o.codeFormat /\ ~o.justTypes}
    /\ proposedFilename \in ProposedFilenames
    /\ generatedFiles = <<>>
    /\ allTypeNames = <<>>
    /\ currentFilename = NoFile
    /\ source = <<>>
    /\ finishedFiles = <<>>
    /\ pc = "idle"
    /\ todo = <<>>
    /\ defining = NoType
    /\ includes = <<>>
    /\ propTypes = <<>>
    /\ seen = <<>>
    /\ passes = 0
    /\ prevOutput = <<>>
    /\ failure = ""

\* updateIncludes called for the occurrences in order, on a new map.
RECURSIVE FillIncludes(_)
FillIncludes(occurrences) == IF occurrences = <<>> THEN <<>> ELSE MergeInclude(FillIncludes(SubSeq(occurrences, 1, Len(occurrences) - 1)), occurrences[Len(occurrences)])

\* The first part of emitIncludes for class A: the records of each member, the kind of
\* each record, and the map.
EmitIncludesCall ==
    /\ probe \in IncludeInputs
    /\ probe' = [op |-> "includes", members |-> probe.members,
                 records |-> [i \in DOMAIN classProps.A |-> generatedTypes(TRUE, classProps.A[i].type)],
                 kinds |-> [i \in DOMAIN classProps.A |-> [k \in DOMAIN generatedTypes(TRUE, classProps.A[i].type) |-> propRecord(generatedTypes(TRUE, classProps.A[i].type)[k]).kind]],
                 includes |-> FillIncludes(OccurrencesOf(ClsA))]
    /\ UNCHANGED <<graphVars, generatedFiles, allTypeNames, currentFilename, source, finishedFiles, pc, todo, defining, includes, propTypes, seen, passes, prevOutput, failure>>

NextIncludes == EmitIncludesCall

SpecIncludes == InitIncludes /\ [][NextIncludes]_vars

IncludesFilled == probe.op = "includes" /\ "includes" \in DOMAIN probe

ClassesBelow(t) == {x \in TypesIn(t) : x.kind = "class"}

HasNamedUnion(t) == \E x \in TypesIn(t) : IsNamedUnion(x)

RecordsOf(i, t) == {k \in DOMAIN probe.records[i] : probe.records[i][k].type = t}

\* C19: when the type of a member of a class is a named union, the union is recorded at
\* level 0 with forceInclude and is Include in the map; every class in the alternatives
\* of the union, also below an array or a map, is recorded, each of its records in this
\* member has forceInclude, and it is Include in the map. The records of another member
\* without a named union have no forceInclude, whatever member came before.
C19_DirectUnion == IncludesFilled => \A i \in DOMAIN probe.members :
    /\ IsNamedUnion(probe.members[i]) =>
        /\ \E k \in RecordsOf(i, probe.members[i]) : probe.records[i][k].level = 0 /\ probe.records[i][k].forceInclude /\ probe.kinds[i][k] = "Include"
        /\ KindOf(probe.includes, probe.members[i].name) = "Include"
        /\ \A t \in ClassesBelow(probe.members[i]) :
            /\ RecordsOf(i, t) # {}
            /\ \A k \in RecordsOf(i, t) : probe.records[i][k].forceInclude /\ probe.kinds[i][k] = "Include"
            /\ KindOf(probe.includes, t.name) = "Include"
    /\ ~HasNamedUnion(probe.members[i]) => \A k \in DOMAIN probe.records[i] : ~probe.records[i][k].forceInclude

\* C19 witness: the first member is a named union with the class B below an array, the
\* second is an optional B; B is recorded with forceInclude in the first and without in
\* the second, and is Include.
C19_Witness == IncludesFilled /\ probe.members = <<UC, OptT(ClsB)>> /\ (\E k \in RecordsOf(1, ClsB) : probe.records[1][k].level = 2 /\ probe.records[1][k].forceInclude) /\ (\E k \in RecordsOf(2, ClsB) : ~probe.records[2][k].forceInclude /\ probe.kinds[2][k] = "ForwardDeclare") /\ KindOf(probe.includes, "B") = "Include"

\* C20: the record of a class is classified Include iff its level is 0 or it has
\* forceInclude, and ForwardDeclare otherwise; the record of an enum is classified
\* ForwardDeclare at every level and never has forceInclude, also below a named union.
C20_Classification == IncludesFilled => \A i \in DOMAIN probe.records : \A k \in DOMAIN probe.records[i] :
    /\ probe.records[i][k].type.kind = "class" => probe.kinds[i][k] = (IF probe.records[i][k].level = 0 \/ probe.records[i][k].forceInclude THEN "Include" ELSE "ForwardDeclare")
    /\ probe.records[i][k].type.kind = "enum" => probe.kinds[i][k] = "ForwardDeclare" /\ ~probe.records[i][k].forceInclude

\* C20 witness: a member is a named union of an enum and a class: the enum is recorded at
\* level 1 without forceInclude and is ForwardDeclare, the class at level 1 with
\* forceInclude and is Include; another member records the class at level 1 as ForwardDeclare.
C20_Witness == IncludesFilled /\ probe.members = <<UE, ArrayT(ClsB)>> /\ (\E k \in RecordsOf(1, EnumE) : probe.records[1][k].level = 1 /\ ~probe.records[1][k].forceInclude /\ probe.kinds[1][k] = "ForwardDeclare") /\ (\E k \in RecordsOf(1, ClsB) : probe.records[1][k].level = 1 /\ probe.records[1][k].forceInclude /\ probe.kinds[1][k] = "Include") /\ (\E k \in RecordsOf(2, ClsB) : probe.records[2][k].level = 1 /\ probe.kinds[2][k] = "ForwardDeclare")

(***************************************************************************)
(* The read strategy of the emitted class decode                           *)
(***************************************************************************)
\* The reads a line of an emitted decode makes.
StrategiesOf(line) == (IF HasToken(line, {"get_optional<"}) THEN {"optional"} ELSE {}) \cup (IF HasToken(line, {"get_untyped(_j, \""}) THEN {"untyped"} ELSE {}) \cup (IF HasToken(line, {"( _j.at(\"", " = _j.at(\""}) THEN {"required"} ELSE {})

\* The read the precedence gives a property of type t.
StrategyFor(t) == IF HasNull(t) THEN "optional" ELSE IF t.kind \in {"any", "null"} THEN "untyped" ELSE "required"

\* The wire name a line of an emitted decode reads.
KeyRead(line) == TokenAfter(line, {">(_j, \"", "get_untyped(_j, \"", "( _j.at(\"", " = _j.at(\""})

\* C21: the emitted class decode has one line per property, in declared order; the line
\* of a property makes exactly one read, of the wire name of the property: the optional
\* read for a union with null, else the untyped read for any and null, else the required
\* read, also for a union without null. On a missing key the optional read gives an
\* absent member, the untyped read an empty value, and the required read fails.
C21_ReadStrategy == RoundTripped =>
    /\ Len(probe.decodeBody) = Len(probe.props)
    /\ \A i \in DOMAIN probe.props :
        /\ StrategiesOf(probe.decodeBody[i]) = {StrategyFor(probe.props[i].type)}
        /\ KeyRead(probe.decodeBody[i]) = probe.props[i].jsonName
        /\ probe.object[i] = "missing" => probe.members[i] = (CASE StrategyFor(probe.props[i].type) = "optional" -> "absent" [] StrategyFor(probe.props[i].type) = "untyped" -> "null" [] OTHER -> "throws")
        /\ (probe.object[i] = "value" /\ StrategyFor(probe.props[i].type) # "optional") => probe.members[i] = "value"

\* C21 witness: a class with a property of type any and a property whose type is a union
\* without null has decoded an object without keys: an empty value and a failure.
C21_Witness == RoundTripped /\ Len(probe.props) = 2 /\ probe.props[1].type = Prim("any") /\ probe.props[2].type = UB /\ probe.object = <<"missing", "missing">> /\ probe.members = <<"null", "throws">>

\* A class with a null property after an optional one has decoded an object without keys.
C21_NullProperty == RoundTripped /\ Len(probe.props) = 2 /\ HasNull(probe.props[1].type) /\ probe.props[2].type = NullT /\ probe.object = <<"missing", "missing">> /\ probe.members = <<"absent", "null">>

(***************************************************************************)
(* The emitted write accessor applied to a value                           *)
(***************************************************************************)
\* An optional without a value, and the content of a field that was not assigned.
EmptyOptional == [kind |-> "absent", value |-> 0]
Unchanged == [kind |-> "unchanged", value |-> 0]

\* The types of the property: an integer or an optional integer, with bounds or without.
SetterTypes == {IntT, OptT(IntT)} \cup {Constrained(IntT, <<a>>) : a \in IntegerAttrs} \cup {Constrained(OptT(IntT), <<a>>) : a \in IntegerAttrs}

\* The values the accessor is called with; an optional can be empty.
SetterInputs == [op : {"set"}, type : SetterTypes, value : IntegerValues] \cup [op : {"set"}, type : {t \in SetterTypes : IsNullableProperty(t)}, value : {EmptyOptional}]

InitSetter ==
    /\ probe \in SetterInputs
    /\ classProps = [A |-> PropsOf(<<probe.type>>), B |-> <<>>]
    /\ topLevels = <<[name |-> "A", type |-> ClsA]>>
    /\ declarations = <<[kind |-> "define", type |-> ClsA]>>
    /\ options \in {o \in Options : o.codeFormat /\ ~o.justTypes}
    /\ proposedFilename \in ProposedFilenames
    /\ generatedFiles = <<>>
    /\ allTypeNames = <<>>
    /\ currentFilename = NoFile
    /\ source = <<>>
    /\ finishedFiles = <<>>
    /\ pc = "idle"
    /\ todo = <<>>
    /\ defining = NoType
    /\ includes = <<>>
    /\ propTypes = <<>>
    /\ seen = <<>>
    /\ passes = 0
    /\ prevOutput = <<>>
    /\ failure = ""

\* The position of the first of the tokens in the line, 0 when there is none.
PositionOf(line, tokens) == IF HasToken(line, tokens) THEN CHOOSE k \in DOMAIN line : line[k] \in tokens /\ \A j \in 1..(k - 1) : line[j] \notin tokens ELSE 0

\* The tokens of a write accessor that hold the assignment to the field.
AssignTokens == {", value); this->", ", *value); this->", "& value) { this->", " value) { this->"}

\* The tokens that make the check depend on the presence of the value.
PresenceGuards == {" value) { if (value) ", " = value; if (value) "}

\* The initializer of the constraint bundle the check of a write accessor names.
InitializerOf(body, line) == body[CHOOSE k \in DOMAIN body : Len(body[k]) > 3 /\ body[k][1] = line[PositionOf(line, {"CheckConstraint"}) + 4] /\ body[k][2] = "Constraint" /\ body[k][3] = "("]

\* The error the check of a write accessor raises for the value, "no error" when the check
\* does not run.
CheckOutcome(body, line, v) ==
    IF ~HasToken(line, {"CheckConstraint"}) THEN "no error"
    ELSE IF v = EmptyOptional THEN (IF HasToken(line, PresenceGuards) THEN "no error" ELSE "undefined behaviour")
    ELSE RunCheck(SubSeq(IntegerCheckFunction, 2, Len(IntegerCheckFunction) - 1), BundleOf(SubSeq(InitializerOf(body, line), 3, Len(InitializerOf(body, line)))), v)

\* Runs an emitted write accessor: the error raised and what the field holds afterwards.
RunSetter(body, line, v) ==
    LET raised == CheckOutcome(body, line, v)
        checkFirst == PositionOf(line, {"CheckConstraint"}) < PositionOf(line, AssignTokens)
    IN [outcome |-> raised, field |-> IF raised # "no error" /\ checkFirst THEN Unchanged ELSE v]

\* emitClass for the class of the property, and its write accessor run on the value.
SetterCall ==
    /\ probe \in SetterInputs
    /\ probe' = [op |-> "set", type |-> probe.type, value |-> probe.value,
                 setter |-> SetterOf(emitClass(ClsA, "A"), classProps.A[1]),
                 result |-> RunSetter(emitClass(ClsA, "A"), SetterOf(emitClass(ClsA, "A"), classProps.A[1]), probe.value)]
    /\ UNCHANGED <<graphVars, generatedFiles, allTypeNames, currentFilename, source, finishedFiles, pc, todo, defining, includes, propTypes, seen, passes, prevOutput, failure>>

NextSetter == SetterCall

SpecSetter == InitSetter /\ [][NextSetter]_vars

SetterRun == probe.op = "set" /\ "result" \in DOMAIN probe

\* The error the bounds of the type ask for.
ErrorFor(t, v) == IF v = EmptyOptional \/ ~HasConstraints(t) THEN "no error" ELSE ExpectedError(t.attr[1], v)

\* C22: the write accessor of a constrained property calls the check before it assigns
\* the field: a value outside the bounds raises the error and leaves the field
\* unchanged, a value within the bounds is stored. For an optional constrained property
\* the check runs only on a present value, an empty optional is stored. The write
\* accessor of a property without constraints has no check and stores every value.
C22_CheckBeforeAssign == SetterRun =>
    /\ HasToken(probe.setter, {"CheckConstraint"}) <=> HasConstraints(probe.type)
    /\ HasConstraints(probe.type) => PositionOf(probe.setter, {"CheckConstraint"}) < PositionOf(probe.setter, AssignTokens)
    /\ (HasConstraints(probe.type) /\ IsNullableProperty(probe.type)) => HasToken(probe.setter, PresenceGuards)
    /\ probe.result.outcome = ErrorFor(probe.type, probe.value)
    /\ probe.result.field = (IF ErrorFor(probe.type, probe.value) = "no error" THEN probe.value ELSE Unchanged)

\* C22 witness: the write accessor of an integer with the minimum 6 was called with 5:
\* too-low is raised and the field is unchanged.
C22_Witness == SetterRun /\ probe.type.kind = "integer" /\ HasConstraints(probe.type) /\ probe.type.attr[1].minValue = <<6>> /\ probe.value = [kind |-> "integer", value |-> 5] /\ probe.result = [outcome |-> "ValueTooLowException", field |-> Unchanged]

\* The write accessor of an optional integer with bounds was called with an empty optional.
C22_EmptyOptional == SetterRun /\ IsNullableProperty(probe.type) /\ HasConstraints(probe.type) /\ probe.value = EmptyOptional /\ probe.result = [outcome |-> "no error", field |-> EmptyOptional]

(***************************************************************************)
(* The order of the single-file output                                     *)
(***************************************************************************)
SingleFile == options.typeSourceStyle

\* The lines of the one file of the single-file layout.
TheStream == finishedFiles[1].lines

\* Line k of the stream starts declaration d: a forward declaration or a full definition.
StartsDeclaration(k, d) == IF d.kind = "forward" THEN IsForwardDeclarationOf(TheStream[k], nameForNamedType(d.type)) ELSE IsDefinitionLine(TheStream[k], d.type)

DeclarationPositions(d) == {k \in DOMAIN TheStream : StartsDeclaration(k, d)}

\* A line of the prelude: the leading comment, the pragma, an include, or the head of a
\* helper or of a class of the validation runtime.
IsPreludeLine(line) ==
    \/ line[1] \in {"//", "#pragma once", "#include ", "using nlohmann::json;", "inline json get_untyped(const json &j, const char *property)", "struct adl_serializer<", "template <typename T>"}
    \/ (Len(line) >= 3 /\ line[1] = "inline " /\ line[3] = "<T> get_optional(const json &j, const char *property)")
    \/ (Len(line) >= 2 /\ line[1] = "class " /\ line[2] = "ClassMemberConstraints")
    \/ (Len(line) >= 2 /\ line[1] = "void " /\ line[2] = "CheckConstraint")

IsProcedureHead(line) == line[1] \in {"inline void from_json(const json& _j, ", "inline void to_json(json& _j, const "}

\* The kind of the type a serialization procedure is for: a class or an enum by its name,
\* a union by its variant.
ProcedureKind(line) == IF Len(line) = 6 /\ line[4] \in NamesOfKind({"class"}) THEN 1 ELSE IF Len(line) = 6 /\ line[4] \in NamesOfKind({"enum"}) THEN 2 ELSE 3

ProcedurePositions == {k \in DOMAIN TheStream : IsProcedureHead(TheStream[k])}

\* C23: in the one file of the single-file layout every declaration of the declaration
\* order starts exactly once and in that order; the lines of the prelude come before the
\* first declaration; the heads of the serialization procedures come after the start and
\* the end of every declaration, those of the classes before those of the enums before
\* those of the unions, a decode and an encode for each class, enum and unique union;
\* with justTypes there is none.
C23_SingleFileOrder == (PassDone /\ SingleFile) =>
    /\ Len(finishedFiles) = 1
    /\ \A i \in DOMAIN declarations : Cardinality(DeclarationPositions(declarations[i])) = 1
    /\ \A i, j \in DOMAIN declarations : i < j => \A a \in DeclarationPositions(declarations[i]) : \A b \in DeclarationPositions(declarations[j]) : a < b
    /\ \A k \in DOMAIN TheStream : IsPreludeLine(TheStream[k]) => \A i \in DOMAIN declarations : \A a \in DeclarationPositions(declarations[i]) : k < a
    /\ \A k \in ProcedurePositions :
        /\ \A i \in DOMAIN declarations : \A a \in DeclarationPositions(declarations[i]) : a < k
        /\ \A a \in DOMAIN TheStream : TheStream[a] = <<"};">> => a < k
        /\ \A m \in ProcedurePositions : k < m => ProcedureKind(TheStream[k]) <= ProcedureKind(TheStream[m])
    /\ Cardinality(ProcedurePositions) = (IF options.justTypes THEN 0 ELSE (Len(namedObjects) + Len(namedEnums) + Len(UniqueUnions)) + (Len(namedObjects) + Len(namedEnums) + Len(UniqueUnions)))

\* C23 witness: a single file with the helpers, a forward declaration, an enum, a union
\* and two classes, and the procedures of the three kinds, is written.
C23_Witness == PassDone /\ SingleFile /\ ~options.justTypes /\ (\E i \in DOMAIN declarations : declarations[i].kind = "forward") /\ Len(namedObjects) = 2 /\ Len(namedEnums) = 1 /\ Len(UniqueUnions) >= 1 /\ {ProcedureKind(TheStream[k]) : k \in ProcedurePositions} = {1, 2, 3} /\ \E k \in DOMAIN TheStream : TheStream[k][1] = "inline json get_untyped(const json &j, const char *property)"

(***************************************************************************)
(* The fatal errors of the renderer                                        *)
(***************************************************************************)
\* Declarations of every kind, of types that can be declared and of types that cannot.
AnyDeclarations == [kind : {"forward", "define"}, type : {ClsA, EnumE, UB, IntT, ArrayT(ClsB), OptT(ClsB)}]

Declarable(t) == t.kind \in {"class", "enum", "union"}

\* C24: no render pass ends in a panic and no file holds the line of one: every
\* declaration of the declaration order is a forward declaration or the definition of a
\* class, an enum or a union, and every record of the map of a type file is Include or
\* ForwardDeclare with the typeKind class, union or enum. emitDeclaration panics for a
\* declaration exactly when it is a 'define' of another type.
C24_NoPanic ==
    /\ failure # "panic"
    /\ \A i \in DOMAIN declarations : declarations[i].kind \in {"forward", "define"} /\ Declarable(declarations[i].type)
    /\ PassDone => \A i \in DOMAIN AllLines : AllLines[i] # <<"panic">>
    /\ \A i \in DOMAIN includes : includes[i].kind \in {"Include", "ForwardDeclare"} /\ includes[i].typeKind \in {"class", "union", "enum"} /\ ForwardLine(includes[i]) # <<"panic">>
    /\ PassDone => \A d \in AnyDeclarations : HasPanic(emitDeclaration(d)) <=> (d.kind = "define" /\ ~Declarable(d.type))

\* C24 witness: a multi-file pass is done without failure, and the file of class A holds
\* the forward declarations of a class and of an enum that the forward-declaration pass wrote.
C24_Witness == PassDone /\ MultiFile /\ failure = "" /\ Len(declarations) >= 3 /\ \E i \in DOMAIN finishedFiles : finishedFiles[i].name = HppFile("A") /\ (\E k \in DOMAIN finishedFiles[i].lines : IsEnumForwardDeclaration(finishedFiles[i].lines[k])) /\ (\E k \in DOMAIN finishedFiles[i].lines : IsForwardDeclaration(finishedFiles[i].lines[k]))

(***************************************************************************)
(* The validation runtime and the classes that use it                      *)
(***************************************************************************)
\* The class of c in the output names the constraint bundle or the check function.
UsesValidation(c) == Validates(ClassBody(c))

\* The output holds the validation runtime: the constraint-bundle class, the exception
\* classes and both check functions.
RuntimeEmitted ==
    /\ \E k \in DOMAIN AllLines : AllLines[k] = <<"class ", "ClassMemberConstraints", " {">>
    /\ \E k \in DOMAIN AllLines : Len(AllLines[k]) >= 2 /\ AllLines[k][1] = "class " /\ AllLines[k][2] = "ValueTooLowException"
    /\ \E k \in DOMAIN AllLines : AllLines[k] = CheckFunctionHead(" & c, int64_t value)") \o <<" {">>
    /\ \E k \in DOMAIN AllLines : AllLines[k] = CheckFunctionHead(" & c, const std::string & value)") \o <<" {">>

\* C25: when the class of a named type in the output of a render pass names the
\* constraint bundle or the check function, the output holds the validation runtime.
C25_RuntimeEmitted == PassDone => ((\E c \in EmittedClasses : UsesValidation(c)) => RuntimeEmitted)

\* What the renderer keeps: the same when justTypes is off.
C25_RuntimeWithSerialization == (PassDone /\ ~options.justTypes) => ((\E c \in EmittedClasses : UsesValidation(c)) => RuntimeEmitted)

\* A pass with serialization has written a class that uses the validation runtime.
C25_Reached == PassDone /\ ~options.justTypes /\ (\E c \in EmittedClasses : UsesValidation(c)) /\ RuntimeEmitted

\* A pass with justTypes has written a class that uses the validation runtime, without it.
C25_TypesOnlyReached == PassDone /\ options.justTypes /\ options.codeFormat /\ (\E c \in EmittedClasses : UsesValidation(c)) /\ ~RuntimeEmitted

(***************************************************************************)
(* The type file of one declaration                                        *)
(***************************************************************************)
\* A union with an array of a named union among its alternatives.
UV == UnionT("UV", <<ArrayT(UB), StrT>>)

TypeFilePool == OccurrencePool \cup {UV}

\* The declaration a type file is written for: class A with its members, or a named union.
TypeFileInputs == [op : {"definition"}, defining : {ClsA}, members : TypeSeqs(TypeFilePool, MaxProps)] \cup [op : {"definition"}, defining : {UB, UC, UE, UV}, members : {<<>>}]

InitTypeFile ==
    /\ probe \in TypeFileInputs
    /\ classProps = [A |-> PropsOf(probe.members), B |-> <<>>]
    /\ topLevels = <<[name |-> "A", type |-> ClsA]>>
    /\ declarations = <<[kind |-> "define", type |-> probe.defining]>>
    /\ options \in {o \in Options : ~o.typeSourceStyle}
    /\ proposedFilename \in ProposedFilenames
    /\ generatedFiles = <<>>
    /\ allTypeNames = <<>>
    /\ currentFilename = NoFile
    /\ source = <<>>
    /\ finishedFiles = <<>>
    /\ pc = "idle"
    /\ todo = <<>>
    /\ defining = NoType
    /\ includes = <<>>
    /\ propTypes = <<>>
    /\ seen = <<>>
    /\ passes = 0
    /\ prevOutput = <<>>
    /\ failure = ""

\* emitDefinition for the declaration: the lines of its file after startFile.
EmitDefinitionCall ==
    /\ probe \in TypeFileInputs
    /\ probe' = [op |-> "definition", defining |-> probe.defining, members |-> probe.members,
                 lines |-> DefinitionFileLines(FillIncludes(OccurrencesOf(probe.defining)), probe.defining)]
    /\ UNCHANGED <<graphVars, generatedFiles, allTypeNames, currentFilename, source, finishedFiles, pc, todo, defining, includes, propTypes, seen, passes, prevOutput, failure>>

NextTypeFile == EmitDefinitionCall

SpecTypeFile == InitTypeFile /\ [][NextTypeFile]_vars

TypeFileWritten == probe.op = "definition" /\ "lines" \in DOMAIN probe

\* The names of the named types of the pool.
PoolTypeNames == {"A", "B", "E", "UB", "UC", "UE", "UV"}

\* The line of the file at which the declaration begins.
UsingPosition(lines) == CHOOSE k \in DOMAIN lines : lines[k] = <<"using nlohmann::json;">>

\* The named types the declaration of the file refers to by name.
NamesReferred(lines) == {n \in PoolTypeNames : \E k \in (UsingPosition(lines) + 1)..Len(lines) : HasToken(lines[k], {n})}

\* The file includes the file of n or forward-declares n before the declaration.
Provides(lines, n) == \E k \in 1..(UsingPosition(lines) - 1) : IsIncludeOf(lines[k], n) \/ IsForwardDeclarationOf(lines[k], n) \/ (IsEnumForwardDeclaration(lines[k]) /\ lines[k][2] = n)

\* C26: every named type the declaration of a type file refers to by name is the type
\* of the file, or is included or forward-declared by the file.
C26_NamesProvided == TypeFileWritten => \A n \in NamesReferred(probe.lines) : n = probe.defining.name \/ Provides(probe.lines, n)

\* What the renderer keeps: the same for the file of a class, and for the file of a union
\* none of whose alternatives holds a named union.
C26_NamesProvidedDirect == (TypeFileWritten /\ (probe.defining.kind = "class" \/ \A i \in DOMAIN probe.defining.sub : ~HasNamedUnion(probe.defining.sub[i]))) => \A n \in NamesReferred(probe.lines) : n = probe.defining.name \/ Provides(probe.lines, n)

\* The file of the union UV, whose alias names the union UB, is written without an
\* include or a forward declaration of UB.
C26_Reached == TypeFileWritten /\ probe.defining = UV /\ "UB" \in NamesReferred(probe.lines) /\ ~Provides(probe.lines, "UB")

\* The file of a class whose members name an enum and a class, both provided.
C26_ClassReached == TypeFileWritten /\ probe.defining = ClsA /\ {"E", "B"} \subseteq NamesReferred(probe.lines) /\ Provides(probe.lines, "E") /\ Provides(probe.lines, "B")

(***************************************************************************)
(* The names of the files of one multi-file pass                           *)
(***************************************************************************)
keywords == {"alignas", "alignof", "and", "and_eq", "asm", "atomic_cancel", "atomic_commit", "atomic_noexcept", "auto", "bitand", "bitor", "bool", "break", "case", "catch", "char", "char16_t", "char32_t", "class", "compl", "concept", "const", "constexpr", "const_cast", "continue", "co_await", "co_return", "co_yield", "decltype", "default", "delete", "do", "double", "dynamic_cast", "else", "enum", "explicit", "export", "extern", "false", "float", "for", "friend", "goto", "if", "import", "inline", "int", "long", "module", "mutable", "namespace", "new", "noexcept", "not", "not_eq", "nullptr", "operator", "or", "or_eq", "private", "protected", "public", "register", "reinterpret_cast", "requires", "return", "short", "signed", "sizeof", "static", "static_assert", "static_cast", "struct", "switch", "synchronized", "template", "this", "thread_local", "throw", "true", "try", "typedef", "typeid", "typename", "union", "unsigned", "using", "virtual", "void", "volatile", "wchar_t", "while", "xor", "xor_eq", "override", "final", "transaction_safe", "transaction_safe_dynamic", "NULL"}

\* The names addGlobalName reserves: the members of GlobalNames in the type naming style.
GlobalNames == {"ClassMemberConstraints", "ClassMemberConstraintException", "ValueTooLowException", "ValueTooHighException", "ValueTooShortException", "ValueTooLongException", "InvalidPatternException", "CheckConstraint"}

forbiddenNamesForGlobalNamespace == keywords \cup GlobalNames

\* The names the JSON input proposes for the enum of the graph, and the ones that stay
\* as they are because no forbidden name equals them.
ProposedEnumNames == {"E", "Generators", "CheckConstraint", "union"}

ResolvedEnumNames == {n \in ProposedEnumNames : n \notin forbiddenNamesForGlobalNamespace}

\* The graphs of class A with one member, an enum of a resolved name; the file name the
\* caller proposes is TopLevel.hpp or helper.hpp.
InitFileNames ==
    /\ \E n \in ResolvedEnumNames :
        /\ classProps = [A |-> PropsOf(<<EnumT(n)>>), B |-> <<>>]
        /\ declarations = <<[kind |-> "define", type |-> EnumT(n)], [kind |-> "define", type |-> ClsA]>>
    /\ topLevels = <<[name |-> "A", type |-> ClsA]>>
    /\ proposedFilename \in {<<"TopLevel", ".hpp">>, HelperFile}
    /\ options \in Options
    /\ generatedFiles = <<>>
    /\ allTypeNames = <<>>
    /\ currentFilename = NoFile
    /\ source = <<>>
    /\ finishedFiles = <<>>
    /\ pc = "idle"
    /\ todo = <<>>
    /\ defining = NoType
    /\ includes = <<>>
    /\ propTypes = <<>>
    /\ seen = <<>>
    /\ passes = 0
    /\ prevOutput = <<>>
    /\ failure = ""
    /\ probe = NoProbe

SpecFileNames == InitFileNames /\ [][Next]_vars

\* C27: in one multi-file render pass the names of the files that are started and
\* finished are pairwise distinct, for every set of resolved type names: no file is
\* finished twice.
C27_DistinctFileNames == MultiFile => \A i, j \in DOMAIN finishedFiles : i # j => finishedFiles[i].name # finishedFiles[j].name

\* The type files of one pass have pairwise distinct names: the resolved names differ.
C27_TypeFilesDistinct == MultiFile => \A i, j \in DOMAIN TypeFileSeq : i # j => TypeFileSeq[i] # TypeFileSeq[j]

\* A finished multi-file pass that wrote the helper file, the aggregator and the file of
\* an enum named Generators.
C27_Reached == PassDone /\ MultiFile /\ ~options.justTypes /\ EnumT("Generators") \in Range(namedTypes) /\ Len(FilesNamed(GeneratorsFile)) = 2

\* A finished multi-file pass whose proposed file name is the name of the helper file.
C27_HelperReached == PassDone /\ MultiFile /\ ~options.justTypes /\ proposedFilename = HelperFile /\ Len(FilesNamed(HelperFile)) = 2

(***************************************************************************)
(* The aliases of the top-level types                                      *)
(***************************************************************************)
\* The top-level types that have no named type of their own.
AliasTopLevels == {i \in DOMAIN topLevels : TopLevelNeedsTypedef(topLevels[i].type)}

\* How often the alias of top-level i stands in the files of the pass.
AliasCount(i) == Cardinality({k \in DOMAIN AllLines : AllLines[k] = emitTopLevelTypedef(topLevels[i].type, topLevels[i].name)[1]})

\* C28: each top-level alias is emitted exactly once in the total output of one render
\* pass, in both layouts and whether or not justTypes is set.
C28_AliasOnce == PassDone => \A i \in AliasTopLevels : AliasCount(i) = 1

\* In the single-file layout with justTypes the alias stands once: emitTypes returns
\* before its forEachTopLevel and emitGenerators emits it.
C28_AliasOnceTypesOnly == PassDone /\ ~MultiFile /\ options.justTypes => \A i \in AliasTopLevels : AliasCount(i) = 1

\* A finished single-file pass with serialization code whose one file holds the alias twice.
C28_Reached == PassDone /\ ~MultiFile /\ ~options.justTypes /\ AliasTopLevels # {} /\ \A i \in AliasTopLevels : AliasCount(i) = 2

\* A finished multi-file pass with a named type that holds the alias in Generators.hpp and
\* in the proposed file.
C28_MultiReached == PassDone /\ MultiFile /\ haveNamedTypes /\ AliasTopLevels # {} /\ \A i \in AliasTopLevels : HasLine(finishedFiles[2], emitTopLevelTypedef(topLevels[i].type, topLevels[i].name)[1]) /\ HasLine(finishedFiles[Len(finishedFiles)], emitTopLevelTypedef(topLevels[i].type, topLevels[i].name)[1]) /\ AliasCount(i) = 2

\* A finished single-file pass with justTypes and an alias.
C28_TypesOnlyReached == PassDone /\ ~MultiFile /\ options.justTypes /\ AliasTopLevels # {} /\ \A i \in AliasTopLevels : AliasCount(i) = 1

(***************************************************************************)
(* Bracketing of startFile and finishFile                                  *)
(***************************************************************************)
\* The files emitHelper wrote in this pass.
HelperFiles == SelectSeq(finishedFiles, LAMBDA f : f = Finished(HelperFile, emitHelper))

\* The state part: startFile never finds a file open, a file is open exactly between the
\* startFile and the finishFile of emitDefinition, none is open when the pass returns,
\* and emitHelper wrote at most one file of the pass.
FilesBracketed ==
    /\ failure # "Previous file wasn't finished"
    /\ FileIsOpen <=> pc = "includes"
    /\ FileIsOpen => source # <<>> /\ currentFilename \in Range(generatedFiles)
    /\ PassDone => ~FileIsOpen /\ source = <<>>
    /\ MultiFile => Len(HelperFiles) <= 1
    /\ PassDone /\ ~MultiFile => Len(finishedFiles) = 1

\* The step part: the open file changes only by being finished, and finishing it appends
\* it under its name to the files of the pass.
FinishBeforeStart ==
    /\ FileIsOpen /\ currentFilename' # currentFilename => currentFilename' = NoFile /\ Len(finishedFiles') = Len(finishedFiles) + 1 /\ finishedFiles'[Len(finishedFiles')].name = currentFilename
    /\ ~FileIsOpen /\ currentFilename' # currentFilename => Head(source') = Head(startFile(currentFilename', TRUE)) /\ finishedFiles' = finishedFiles

\* C29: file emission is strictly bracketed in every render pass of either layout:
\* startFile is only called when no file is open, finishFile only when one is open, every
\* started file is finished before the next one starts, no file is open when
\* emitSourceStructure returns, and in the multi-file layout the helper file is started
\* at most once per pass.
C29_Bracketed == [](FilesBracketed) /\ [][FinishBeforeStart]_vars

\* A finished multi-file pass that wrote the helper file once, the aggregator and at
\* least two type files, each opened and closed in turn.
C29_Witness == PassDone /\ MultiFile /\ Len(HelperFiles) = 1 /\ Len(FilesNamed(GeneratorsFile)) = 1 /\ Len(namedTypes) >= 2 /\ Range(TypeFileSeq) \subseteq Range(FileNames) /\ ~FileIsOpen

(***************************************************************************)
(* The emitted encode of a union against the alias of the union            *)
(***************************************************************************)
\* The declaration IRs the encode is probed under: class A forward-declared or not.
EncodeDeclarations == {<<[kind |-> "define", type |-> ClsA]>>, <<[kind |-> "forward", type |-> ClsA], [kind |-> "define", type |-> ClsA]>>}

\* The inputs: a named union and the index which() returns, one past the last included.
EncodeInputs == UNION {{[op |-> "encode", union |-> u, which |-> w] : w \in 0..Len(removeNullFromUnion(u, TRUE).nonNulls)} : u \in ProbeUnions}

InitUnionEncode == InitProbe /\ declarations \in EncodeDeclarations /\ probe \in EncodeInputs

\* The lines of the emitted to_json of a union: from its head to the end.
EncodeBlock(lines) == SubSeq(lines, CHOOSE k \in DOMAIN lines : lines[k][1] = "inline void to_json(json& _j, const ", Len(lines))

\* Runs the emitted switch on the index w: the statement of the case labelled w, or the
\* default.
RunEncode(lines, w) ==
    IF \E k \in DOMAIN lines : lines[k] = <<"case ", ToString(w), ":">>
    THEN lines[(CHOOSE k \in DOMAIN lines : lines[k] = <<"case ", ToString(w), ":">>) + 1]
    ELSE IF \E k \in DOMAIN lines : lines[k][1] = "default: throw \"Input JSON does not conform to schema\";"
    THEN lines[CHOOSE k \in DOMAIN lines : lines[k][1] = "default: throw \"Input JSON does not conform to schema\";"]
    ELSE <<"fell through">>

\* emitUnionTypedefs and emitUnionFunctions for one union, and the emitted encode run on
\* one index.
UnionEncodeCall ==
    /\ probe \in EncodeInputs
    /\ probe' = [op |-> "encode", union |-> probe.union, which |-> probe.which, alias |-> emitUnionTypedefs(probe.union, nameForNamedType(probe.union)), emitted |-> EncodeBlock(emitUnionFunctions(probe.union)), outcome |-> RunEncode(EncodeBlock(emitUnionFunctions(probe.union)), probe.which)]
    /\ UNCHANGED <<graphVars, generatedFiles, allTypeNames, currentFilename, source, finishedFiles, pc, todo, defining, includes, propTypes, seen, passes, prevOutput, failure>>

NextUnionEncode == UnionEncodeCall

SpecUnionEncode == InitUnionEncode /\ [][NextUnionEncode]_vars

Encoded == "alias" \in DOMAIN probe

\* The tokens of the variant type list of an alias line: between boost::variant< and its >.
AliasList(line) == SubSeq(line, PositionOf(line, {"boost::variant<"}) + 1, Len(line) - (IF line[2] = optionalType THEN 5 ELSE 4))

\* A token list cut at its ", " tokens.
RECURSIVE SplitList(_)
SplitList(tokens) == IF ~HasToken(tokens, {", "}) THEN <<tokens>> ELSE <<SubSeq(tokens, 1, PositionOf(tokens, {", "}) - 1)>> \o SplitList(SubSeq(tokens, PositionOf(tokens, {", "}) + 1, Len(tokens)))

AliasAlternatives == SplitList(AliasList(probe.alias[1]))

\* The type a case statement passes to boost::get.
EncodedType(line) == SubSeq(line, 2, Len(line) - 1)

\* A rendered type without the qualifier of the program namespace.
Unqualified(tokens) == SelectSeq(tokens, LAMBDA t : t \notin Range(ourQualifier(TRUE)))

CaseLabels == SelectSeq(probe.emitted, LAMBDA l : l[1] = "case ")

DefaultLine == <<"default: throw \"Input JSON does not conform to schema\";">>

\* The original statement: case i of the emitted encode passes to boost::get the very
\* rendering the alias has at position i of its variant type list.
C30_EncodeSameRendering == Encoded /\ probe.which < Len(AliasAlternatives) => probe.outcome[1] = "_j = boost::get<" /\ EncodedType(probe.outcome) = AliasAlternatives[probe.which + 1]

\* C30: for every named union, case i of the emitted encode serializes the alternative at
\* position i of the variant type list of the alias of the union, rendered as in the alias
\* but for the qualifier of the program namespace; there are as many cases as variant
\* alternatives, labelled 0 to n - 1 in order, and an index outside that range reaches the
\* fatal default.
C30_EncodeMatchesAlias == Encoded =>
    /\ Len(CaseLabels) = Len(AliasAlternatives)
    /\ \A i \in DOMAIN CaseLabels : CaseLabels[i] = <<"case ", ToString(i - 1), ":">>
    /\ probe.which < Len(AliasAlternatives) => probe.outcome[1] = "_j = boost::get<" /\ Unqualified(EncodedType(probe.outcome)) = AliasAlternatives[probe.which + 1]
    /\ probe.which < Len(AliasAlternatives) => EncodedType(probe.outcome) = cppType(removeNullFromUnion(probe.union, TRUE).nonNulls[probe.which + 1], Ctx(TRUE, FALSE, TRUE), FALSE)
    /\ probe.which >= Len(AliasAlternatives) => probe.outcome = DefaultLine

\* The encode of a nullable union of a forward-declared class and two other kinds, run on
\* the index of the class: the case names the class through the namespace, the alias does
\* not.
C30_Witness == Encoded /\ Len(AliasAlternatives) = 3 /\ probe.which < 3 /\ probe.alias[1][2] = optionalType /\ AliasAlternatives[probe.which + 1] = <<optionalType, "<", "A", ">">> /\ EncodedType(probe.outcome) # AliasAlternatives[probe.which + 1]

\* The encode run on the index one past the last alternative.
C30_DefaultReached == Encoded /\ probe.which = Len(AliasAlternatives) /\ probe.outcome = DefaultLine

=============================================================================
